---- MODULE Spec2Model ----
(***************************************************************************)
(* Model of the JSON memory store (memory_management/json_memory_store.py) *)
(* and of the relationship evolution engine                                *)
(* (personality_layer/personality_evolution.py, personality_main.py).      *)
(*                                                                         *)
(* Text is a sequence of one-character strings, a calendar date is a day   *)
(* number, a depth or intensity in [0,1] is an integer number of           *)
(* thousandths.                                                            *)
(***************************************************************************)
EXTENDS Integers, Sequences, FiniteSets, TLC

(* ------------------------------ bounds --------------------------------- *)

\* message_history_limit ranges over 0..MaxLimit
MaxLimit == 2
\* store_message calls per behaviour (all users together)
MaxMsgs == 4
\* the clock runs over days 1..MaxDay
MaxDay == 4
\* store_user_fact calls per behaviour (all users together)
MaxFactCalls == 4
\* update_evolution_stats calls per user and behaviour
MaxInteractions == 203
\* of these, the calls whose depth score is not above 0.5
MaxShallow == 2
\* and the calls that carry an "emotion" key
MaxEmotionCalls == 2
\* process_message calls per behaviour (all users together)
MaxProcessed == 4
\* update_emotional_trend calls per behaviour of SpecTrend
MaxTrendCalls == 11
\* update_evolution_stats calls per behaviour of SpecEvoDays
MaxStatCalls == 3
\* the longest string given to a sanitizer in SpecSanitize
MaxTextLen == 4
\* the times a sanitizer is applied to its own result in SpecSanitize
MaxSanitizeCalls == 2
\* store_user_profile calls per behaviour (all users together)
MaxProfileCalls == 3
\* store_permanent_memory calls per behaviour (all users together)
MaxMemories == 3

(* ------------------------------ domains -------------------------------- *)

Users == {"alice", "bob"}

\* the ids callers pass: "alice", "bob", " bob ", "../bob", "/."; the store
\* keys its documents by the sanitized id, the personality layer by the id
\* as passed
RawIds == {"alice", "bob", " bob ", "../bob", "/."}

\* the characters of an id
IdText ==
    [r \in RawIds |->
        IF r = "alice" THEN <<"a", "l", "i", "c", "e">>
        ELSE IF r = "bob" THEN <<"b", "o", "b">>
        ELSE IF r = " bob " THEN <<" ", "b", "o", "b", " ">>
        ELSE IF r = "../bob" THEN <<".", ".", "/", "b", "o", "b">>
        ELSE <<"/", ".">>]

\* sorted() on the ids of the model: alice < bob
UserRank == [u \in Users |-> IF u = "alice" THEN 1 ELSE 2]

DocNames == {"user_profile", "conversation_history", "user_facts",
             "interaction_metrics", "permanent_memories"}

\* message texts: "hi", "<b>x y"
Contents == { <<"h", "i">>, <<"<", "b", ">", "x", " ", "y">> }

\* fact types: "pet", "<b>pet" (sanitizes to "pet"), "job"
FactTypes == { <<"p", "e", "t">>, <<"<", "b", ">", "p", "e", "t">>, <<"j", "o", "b">> }

\* fact texts: "go", "<i>go" (sanitizes to "go"), "tea"
FactValues == { <<"g", "o">>, <<"<", "i", ">", "g", "o">>, <<"t", "e", "a">> }

\* a date that is None (last_interaction_date, first_interaction, last_updated)
NoDate == 0

VARIABLES
    message_history_limit,  \* JsonMemoryStore.message_history_limit
    today,                  \* the day datetime.now() falls on
    users_index,            \* users_index.json: the "users" list
    user_dirs,              \* directories under user_data_path
    files,                  \* files[u]: the documents of u that exist on disk
    conversation_history,   \* conversation_history.json: "messages"
    interaction_metrics,    \* interaction_metrics.json
    user_facts,             \* user_facts.json: "categories" and "last_updated"
    stored,                 \* per user, the entries of the store_message calls that returned True
    fact_calls,             \* per user, the number of store_user_fact calls that returned True
    user_profile,           \* user_profile.json
    permanent_memories,     \* permanent_memories.json: "memories"
    profile_calls,          \* the number of store_user_profile calls so far
    memory_calls,           \* the number of store_permanent_memory calls so far
    rejected,               \* the calls _sanitize_user_id rejected, and how each ended
    global_context          \* global_context.json: the entry of each key

callVars == <<profile_calls, memory_calls, rejected>>

storeVars == <<message_history_limit, today, users_index, user_dirs, files,
               conversation_history, interaction_metrics, user_facts, stored,
               fact_calls, user_profile, permanent_memories, callVars,
               global_context>>

VARIABLES
    target_file,    \* the document at file_path
    temp_file,      \* the file at f"{file_path}.tmp"
    wpc,            \* wpc[w]: where writer w is in _write_json_file
    wdata,          \* wdata[w]: the document w is writing
    wold,           \* wold[w]: the target as it was when w's call began
    wpos,           \* wpos[w]: the chunks json.dump has written so far
    wsaw,           \* wsaw[w]: what os.path.exists(file_path) returned
    wnode,          \* wnode[w]: the name the file w has open goes by now
    wresult,        \* wresult[w]: what w's call returned
    rpc,            \* where the reader is in _read_json_file
    rseen,          \* the documents written or being written while the read ran
    rresult         \* what the read returned

writeVars == <<target_file, temp_file, wpc, wdata, wold, wpos, wsaw, wnode,
               wresult, rpc, rseen, rresult>>

VARIABLES
    evolution_data, \* PersonalityEvolution.evolution_data (in-memory cache)
    evo_cached,     \* the users that are keys of the cache
    evo_file,       \* evolution_data.json of each user
    evo_saved,      \* the users whose evolution_data.json exists
    evo_dirs        \* the user_<id> directories _get_user_data_path made

evoVars == <<evolution_data, evo_cached, evo_file, evo_saved, evo_dirs>>

VARIABLES
    tracker,            \* ConversationTracker.metrics[u]["message_count"]
    emotional_history,  \* emotional_history of the factory's <id>.json
    emotion_persistence,\* emotion_persistence of the factory's <id>.json
    factory_files       \* the ids whose <id>.json exists under user_data_path

procVars == <<tracker, emotional_history, emotion_persistence, factory_files>>

VARIABLES
    san_kind,   \* which sanitizer is applied: "text" or "id"
    san_given,  \* the string the first call was given
    san_text,   \* the string the next call is given: the last call's result
    san_calls   \* the calls made so far

sanVars == <<san_kind, san_given, san_text, san_calls>>

vars == <<storeVars, writeVars, evoVars, procVars, sanVars>>

(* ------------------------------ sanitizer ------------------------------ *)

\* the first ">" of t when no "<" comes before it, as r'<[^<>]*>' would
\* close a tag
FirstClose_no_open(t) ==
    IF \E i \in 1..Len(t) : t[i] = ">" /\ \A j \in 1..(i-1) : t[j] \notin {"<", ">"}
    THEN CHOOSE i \in 1..Len(t) : t[i] = ">" /\ \A j \in 1..(i-1) : t[j] # ">"
    ELSE 0

\* index of the first ">" of t, 0 when there is none
FirstClose(t) ==
    IF \E i \in 1..Len(t) : t[i] = ">"
    THEN CHOOSE i \in 1..Len(t) : t[i] = ">" /\ \A j \in 1..(i-1) : t[j] # ">"
    ELSE 0

\* re.sub(r'<[^>]*>', '', text): leftmost non-overlapping matches, one pass
RECURSIVE sanitize_string(_)
sanitize_string(text) ==
    IF text = <<>> THEN <<>>
    ELSE IF Head(text) = "<" /\ FirstClose(Tail(text)) > 0
         THEN sanitize_string(SubSeq(Tail(text), FirstClose(Tail(text)) + 1, Len(Tail(text))))
         ELSE <<Head(text)>> \o sanitize_string(Tail(text))

\* len(safe_message.split())
word_count(text) ==
    Cardinality({i \in 1..Len(text) : text[i] # " " /\ (i = 1 \/ text[i-1] = " ")})

\* the characters [a-zA-Z0-9_\-] keeps
IdChars ==
    {"a", "b", "c", "d", "e", "f", "g", "h", "i", "j", "k", "l", "m", "n", "o",
     "p", "q", "r", "s", "t", "u", "v", "w", "x", "y", "z",
     "A", "B", "C", "D", "E", "F", "G", "H", "I", "J", "K", "L", "M", "N", "O",
     "P", "Q", "R", "S", "T", "U", "V", "W", "X", "Y", "Z",
     "0", "1", "2", "3", "4", "5", "6", "7", "8", "9", "_", "-"}

IsIdChar(c) == c \in IdChars

\* re.sub(r'[^a-zA-Z0-9_\-]', '', user_id.strip()); the empty result is the
\* case in which _sanitize_user_id raises ValueError
sanitize_user_id(text) == SelectSeq(text, IsIdChar)

\* _sanitize_string(text) applied to the result of the last call
sanitize_string_call ==
    /\ san_kind = "text"
    /\ san_text' = sanitize_string(san_text)
    /\ san_calls' = san_calls + 1
    /\ UNCHANGED <<san_kind, san_given>>
    /\ UNCHANGED <<storeVars, writeVars, evoVars, procVars>>

\* _sanitize_user_id(user_id) applied to the result of the last call; with
\* an empty result it raises ValueError and returns nothing
sanitize_user_id_call ==
    /\ san_kind = "id"
    /\ sanitize_user_id(san_text) # <<>>
    /\ san_text' = sanitize_user_id(san_text)
    /\ san_calls' = san_calls + 1
    /\ UNCHANGED <<san_kind, san_given>>
    /\ UNCHANGED <<storeVars, writeVars, evoVars, procVars>>

\* the id of the model with these characters
IdOf(text) == CHOOSE r \in RawIds : IdText[r] = text

(* ------------------------------ JSON values ---------------------------- *)

\* a value is a string, a number, null, a list or a dict; the entries of a
\* dict are kept in insertion order, the entries of a list have the key <<>>
Str(t) == [kind |-> "str", text |-> t, n |-> 0, items |-> <<>>]
Num(k) == [kind |-> "num", text |-> <<>>, n |-> k, items |-> <<>>]
Null == [kind |-> "null", text |-> <<>>, n |-> 0, items |-> <<>>]
List(values) ==
    [kind |-> "list", text |-> <<>>, n |-> 0,
     items |-> [i \in 1..Len(values) |-> [key |-> <<>>, value |-> values[i]]]]
Dict(entries) == [kind |-> "map", text |-> <<>>, n |-> 0, items |-> entries]

\* key in d
HasKey(d, key) == \E i \in 1..Len(d.items) : d.items[i].key = key

\* d[key]
Get(d, key) == d.items[CHOOSE i \in 1..Len(d.items) : d.items[i].key = key].value

\* d[key] = value: in place when the key is there, else at the end
dict_set(d, key, value) ==
    IF HasKey(d, key)
    THEN [d EXCEPT !.items =
             [i \in 1..Len(d.items) |->
                 IF d.items[i].key = key THEN [key |-> key, value |-> value]
                 ELSE d.items[i]]]
    ELSE [d EXCEPT !.items = Append(@, [key |-> key, value |-> value])]

\* _sanitize_dict(data): a dict is rebuilt entry by entry under the
\* sanitized keys; of the items of a list only dicts and strings are
\* sanitized; anything else is returned as it is
RECURSIVE sanitize_dict(_)
sanitize_dict(data) ==
    LET list_item(item) ==
            IF item.kind = "map" THEN sanitize_dict(item)
            ELSE IF item.kind = "str" THEN Str(sanitize_string(item.text))
            ELSE item
        safe_value(value) ==
            IF value.kind = "map" THEN sanitize_dict(value)
            ELSE IF value.kind = "list"
                 THEN [value EXCEPT !.items =
                          [i \in 1..Len(value.items) |->
                              [key |-> <<>>, value |-> list_item(value.items[i].value)]]]
            ELSE IF value.kind = "str" THEN Str(sanitize_string(value.text))
            ELSE value
        RECURSIVE loop(_, _)
        loop(i, result) ==
            IF i > Len(data.items) THEN result
            ELSE loop(i + 1, dict_set(result, sanitize_string(data.items[i].key),
                                      safe_value(data.items[i].value)))
    IN  IF data.kind # "map" THEN data ELSE loop(1, Dict(<<>>))

\* _deep_update(target, source)
RECURSIVE deep_update(_, _)
deep_update(target, source) ==
    LET RECURSIVE loop(_, _)
        loop(i, result) ==
            IF i > Len(source.items) THEN result
            ELSE LET key == source.items[i].key
                     value == source.items[i].value
                 IN  loop(i + 1,
                          IF HasKey(result, key) /\ Get(result, key).kind = "map"
                             /\ value.kind = "map"
                          THEN dict_set(result, key, deep_update(Get(result, key), value))
                          ELSE dict_set(result, key, value))
    IN  IF target.kind # "map" \/ source.kind # "map"
        THEN (IF source.kind = "map" THEN source
              ELSE IF target.kind = "map" THEN target ELSE Dict(<<>>))
        ELSE loop(1, target)

(* ------------------------------ documents ------------------------------ *)

\* interaction_metrics.json as create_user writes it; a key that is absent
\* reads as its .get() default (0, None, [])
BlankMetrics ==
    [message_count |-> 0, total_words |-> 0,
     first_interaction |-> NoDate, last_interaction |-> NoDate,
     interaction_dates |-> {},
     streak_days |-> 0, longest_streak |-> 0, last_interaction_date |-> NoDate]

\* the keys "categories" can have: sanitized fact types
Categories == {sanitize_string(t) : t \in FactTypes}

\* user_facts.json as create_user writes it: {"categories": {}}; a category
\* that is not a key reads as the empty list
NoFacts == [categories |-> [c \in Categories |-> <<>>], last_updated |-> NoDate]

\* "created_at"
created_at == <<"c", "r", "e", "a", "t", "e", "d", "_", "a", "t">>

\* user_profile.json as create_user writes it without initial_data
BlankProfile(t) == Dict(<< [key |-> created_at, value |-> Num(t)] >>)

\* memory types: "trip", "<b>trip" (sanitizes to "trip"), "goal"
MemoryTypes == { <<"t", "r", "i", "p">>, <<"<", "b", ">", "t", "r", "i", "p">>,
                 <<"g", "o", "a", "l">> }

\* memory texts: "m1", "<i>m2"
MemoryContents == { <<"m", "1">>, <<"<", "i", ">", "m", "2">> }

\* the keys "memories" can have: sanitized memory types
MemoryKeys == {sanitize_string(t) : t \in MemoryTypes}

\* permanent_memories.json as create_user writes it: {"memories": {}}; a type
\* that is not a key reads as the empty list
NoMemories == [k \in MemoryKeys |-> <<>>]

\* sorted(users_index["users"] + [u])
RECURSIVE sorted_insert(_, _)
sorted_insert(s, u) ==
    IF s = <<>> THEN <<u>>
    ELSE IF UserRank[u] < UserRank[Head(s)] THEN <<u>> \o s
         ELSE <<Head(s)>> \o sorted_insert(Tail(s), u)

InIndex(u) == \E i \in 1..Len(users_index) : users_index[i] = u

\* user_exists: the value it returns
user_exists(u) == InIndex(u) \/ u \in user_dirs

\* user_exists: the index it leaves behind (self-healing)
index_after_exists(u) ==
    IF ~InIndex(u) /\ u \in user_dirs THEN sorted_insert(users_index, u) ELSE users_index

Max(a, b) == IF a > b THEN a ELSE b

\* list[-k:] for k >= 0 (k = 0 is list[-0:], the whole list)
py_tail(s, k) ==
    IF k = 0 \/ k >= Len(s) THEN s ELSE SubSeq(s, Len(s) - k + 1, Len(s))

(* ---------------------------- update_streak ---------------------------- *)

\* update_streak with the consecutive-day test widened to "any earlier day"
update_streak_metrics_gap(metrics, t) ==
    LET last_date == metrics.last_interaction_date
        new_streak ==
            IF last_date = NoDate THEN 1
            ELSE IF last_date = t THEN metrics.streak_days
            ELSE metrics.streak_days + 1
    IN  [metrics EXCEPT
            !.interaction_dates = @ \cup {t},
            !.streak_days = new_streak,
            !.last_interaction_date = t,
            !.longest_streak = IF new_streak > @ THEN new_streak ELSE @]

\* the metrics update_streak writes, from the metrics it read, on day t
update_streak_metrics(metrics, t) ==
    LET last_date == metrics.last_interaction_date
        new_streak ==
            IF last_date = NoDate THEN 1
            ELSE IF last_date = t THEN metrics.streak_days
            ELSE IF last_date = t - 1 THEN metrics.streak_days + 1
            ELSE 1
    IN  [metrics EXCEPT
            !.interaction_dates = @ \cup {t},
            !.streak_days = new_streak,
            !.last_interaction_date = t,
            !.longest_streak = IF new_streak > @ THEN new_streak ELSE @]

\* update_streak(user_id) called directly
update_streak(u) ==
    /\ users_index' = index_after_exists(u)
    /\ IF user_exists(u)
       THEN /\ user_dirs' = user_dirs \cup {u}
            /\ files' = [files EXCEPT ![u] = @ \cup {"interaction_metrics"}]
            /\ interaction_metrics' =
                   [interaction_metrics EXCEPT ![u] = update_streak_metrics(@, today)]
       ELSE UNCHANGED <<user_dirs, files, interaction_metrics>>
    /\ UNCHANGED <<message_history_limit, today, conversation_history, user_facts,
                   stored, fact_calls, user_profile, permanent_memories, callVars>>
    /\ UNCHANGED <<global_context, writeVars, evoVars, procVars, sanVars>>

(* ----------------------------- create_user ----------------------------- *)

create_user(u) ==
    /\ IF InIndex(u)
       THEN UNCHANGED <<users_index, user_dirs, files, conversation_history,
                        interaction_metrics, user_facts, user_profile,
                        permanent_memories>>
       ELSE /\ user_dirs' = user_dirs \cup {u}
            /\ files' = [files EXCEPT ![u] = DocNames]
            /\ user_profile' = [user_profile EXCEPT ![u] = BlankProfile(today)]
            /\ permanent_memories' = [permanent_memories EXCEPT ![u] = NoMemories]
            /\ conversation_history' = [conversation_history EXCEPT ![u] = <<>>]
            /\ user_facts' = [user_facts EXCEPT ![u] = NoFacts]
            /\ interaction_metrics' =
                   [interaction_metrics EXCEPT
                       ![u] = [BlankMetrics EXCEPT !.first_interaction = today]]
            /\ users_index' = sorted_insert(users_index, u)
    /\ UNCHANGED <<message_history_limit, today, stored, fact_calls, callVars>>
    /\ UNCHANGED <<global_context, writeVars, evoVars, procVars, sanVars>>

(* ---------------------------- store_message ---------------------------- *)

\* the metrics _update_message_metrics leaves in interaction_metrics.json:
\* it reads the file, lets update_streak rewrite the file, then writes the
\* dictionary it read before
update_message_metrics(on_disk, message_entry, t) ==
    LET metrics ==
            [on_disk EXCEPT
                !.message_count = @ + 1,
                !.total_words = @ + message_entry.word_count,
                !.first_interaction = IF @ = NoDate THEN message_entry.timestamp ELSE @,
                !.last_interaction = message_entry.timestamp,
                !.interaction_dates = @ \cup {message_entry.timestamp}]
    IN  \* update_streak(user_id) has rewritten the file in between when
        \* is_user is set; _write_json_file(metrics_file, metrics) replaces
        \* the whole file by the dictionary read before that
        metrics

\* conversation_history["messages"] after the append and the trim
trimmed_history(messages, message_entry, limit) ==
    LET appended == Append(messages, message_entry)
    IN  IF Len(appended) > limit THEN py_tail(appended, limit) ELSE appended

TotalStored ==
    LET RECURSIVE Sum(_)
        Sum(S) == IF S = {} THEN 0
                  ELSE LET x == CHOOSE y \in S : TRUE IN Len(stored[x]) + Sum(S \ {x})
    IN  Sum(Users)

store_message(u, message, is_user) ==
    LET safe_message == sanitize_string(message)
        message_entry == [content |-> safe_message, timestamp |-> today,
                          is_user |-> is_user, word_count |-> word_count(safe_message)]
        existed == user_exists(u)
        \* after "if not self.user_exists(id): self.create_user(id)"
        history0 == IF existed THEN conversation_history[u] ELSE <<>>
        metrics0 == IF existed THEN interaction_metrics[u]
                    ELSE [BlankMetrics EXCEPT !.first_interaction = today]
    IN  /\ TotalStored < MaxMsgs
        /\ users_index' = IF existed THEN index_after_exists(u)
                          ELSE sorted_insert(users_index, u)
        /\ user_dirs' = user_dirs \cup {u}
        /\ files' = [files EXCEPT ![u] =
                        IF existed
                        THEN @ \cup {"conversation_history", "interaction_metrics"}
                        ELSE DocNames]
        /\ user_facts' = IF existed THEN user_facts
                         ELSE [user_facts EXCEPT ![u] = NoFacts]
        /\ interaction_metrics' =
               [interaction_metrics EXCEPT
                   ![u] = update_message_metrics(metrics0, message_entry, today)]
        /\ conversation_history' =
               [conversation_history EXCEPT
                   ![u] = trimmed_history(history0, message_entry, message_history_limit)]
        /\ stored' = [stored EXCEPT ![u] = Append(@, message_entry)]
        /\ user_profile' = IF existed THEN user_profile
                           ELSE [user_profile EXCEPT ![u] = BlankProfile(today)]
        /\ permanent_memories' = IF existed THEN permanent_memories
                                 ELSE [permanent_memories EXCEPT ![u] = NoMemories]
        /\ UNCHANGED <<message_history_limit, today, fact_calls, callVars>>
        /\ UNCHANGED <<global_context, writeVars, evoVars, procVars, sanVars>>

\* store_message(user_id, message, is_user) when its last step,
\* _write_json_file(history_file, conversation_history), returns False:
\* create_user and _update_message_metrics have written before it
store_message_history_unwritten(u, message, is_user) ==
    LET safe_message == sanitize_string(message)
        message_entry == [content |-> safe_message, timestamp |-> today,
                          is_user |-> is_user, word_count |-> word_count(safe_message)]
        existed == user_exists(u)
        metrics0 == IF existed THEN interaction_metrics[u]
                    ELSE [BlankMetrics EXCEPT !.first_interaction = today]
    IN  /\ metrics0.message_count < MaxMsgs
        /\ users_index' = IF existed THEN index_after_exists(u)
                          ELSE sorted_insert(users_index, u)
        /\ user_dirs' = user_dirs \cup {u}
        /\ files' = [files EXCEPT ![u] =
                        IF existed THEN @ \cup {"interaction_metrics"} ELSE DocNames]
        /\ user_facts' = IF existed THEN user_facts
                         ELSE [user_facts EXCEPT ![u] = NoFacts]
        /\ interaction_metrics' =
               [interaction_metrics EXCEPT
                   ![u] = update_message_metrics(metrics0, message_entry, today)]
        /\ conversation_history' =
               IF existed THEN conversation_history
               ELSE [conversation_history EXCEPT ![u] = <<>>]
        /\ user_profile' = IF existed THEN user_profile
                           ELSE [user_profile EXCEPT ![u] = BlankProfile(today)]
        /\ permanent_memories' = IF existed THEN permanent_memories
                                 ELSE [permanent_memories EXCEPT ![u] = NoMemories]
        /\ UNCHANGED <<message_history_limit, today, stored, fact_calls, callVars>>
        /\ UNCHANGED <<global_context, writeVars, evoVars, procVars, sanVars>>

\* get_recent_messages(user_id, limit); limit = 0 stands for limit=None
get_recent_messages(u, limit) ==
    IF ~user_exists(u) THEN <<>>
    ELSE IF limit > 0 THEN py_tail(conversation_history[u], limit)
         ELSE conversation_history[u]

\* a day passes
Tick ==
    /\ today < MaxDay
    /\ today' = today + 1
    /\ UNCHANGED <<message_history_limit, users_index, user_dirs, files,
                   conversation_history, interaction_metrics, user_facts, stored,
                   fact_calls, user_profile, permanent_memories, callVars>>
    /\ UNCHANGED <<global_context, writeVars, evoVars, procVars, sanVars>>

(* --------------------------- store_user_fact --------------------------- *)

Contains(list, x) == \E i \in 1..Len(list) : list[i] = x

\* store_user_fact without the "not in" test
facts_after_store_always(facts, safe_fact_type, safe_fact_value) ==
    [facts EXCEPT ![safe_fact_type] = Append(@, safe_fact_value)]

\* facts["categories"][safe_fact_type] after the conditional append
facts_after_store(facts, safe_fact_type, safe_fact_value) ==
    IF Contains(facts[safe_fact_type], safe_fact_value)
    THEN facts
    ELSE [facts EXCEPT ![safe_fact_type] = Append(@, safe_fact_value)]

TotalFactCalls ==
    LET RECURSIVE Sum(_)
        Sum(S) == IF S = {} THEN 0
                  ELSE LET x == CHOOSE y \in S : TRUE IN fact_calls[x] + Sum(S \ {x})
    IN  Sum(Users)

store_user_fact(u, fact_type, fact_value) ==
    LET safe_fact_type == sanitize_string(fact_type)
        safe_fact_value == sanitize_string(fact_value)
        existed == user_exists(u)
        \* after "if not self.user_exists(id): self.create_user(id)"
        facts0 == IF existed THEN user_facts[u] ELSE NoFacts
    IN  /\ TotalFactCalls < MaxFactCalls
        /\ users_index' = IF existed THEN index_after_exists(u)
                          ELSE sorted_insert(users_index, u)
        /\ user_dirs' = user_dirs \cup {u}
        /\ files' = [files EXCEPT ![u] =
                        IF existed THEN @ \cup {"user_facts"} ELSE DocNames]
        /\ conversation_history' =
               IF existed THEN conversation_history
               ELSE [conversation_history EXCEPT ![u] = <<>>]
        /\ interaction_metrics' =
               IF existed THEN interaction_metrics
               ELSE [interaction_metrics EXCEPT
                        ![u] = [BlankMetrics EXCEPT !.first_interaction = today]]
        /\ user_facts' =
               [user_facts EXCEPT
                   ![u] = [categories |->
                               facts_after_store(facts0.categories, safe_fact_type,
                                                 safe_fact_value),
                           last_updated |-> today]]
        /\ fact_calls' = [fact_calls EXCEPT ![u] = @ + 1]
        /\ user_profile' = IF existed THEN user_profile
                           ELSE [user_profile EXCEPT ![u] = BlankProfile(today)]
        /\ permanent_memories' = IF existed THEN permanent_memories
                                 ELSE [permanent_memories EXCEPT ![u] = NoMemories]
        /\ UNCHANGED <<message_history_limit, today, stored, callVars>>
        /\ UNCHANGED <<global_context, writeVars, evoVars, procVars, sanVars>>

\* get_user_facts(user_id, fact_type)
get_user_facts(u, fact_type) ==
    IF ~user_exists(u) THEN <<>>
    ELSE user_facts[u].categories[sanitize_string(fact_type)]

(* ------------------- user_exists, clear_user_data ---------------------- *)

\* user_exists(user_id) called directly: the index is repaired when the
\* directory is there and the entry is not
check_user_exists(u) ==
    /\ users_index' = index_after_exists(u)
    /\ UNCHANGED <<message_history_limit, today, user_dirs, files,
                   conversation_history, interaction_metrics, user_facts, stored,
                   fact_calls, user_profile, permanent_memories, callVars>>
    /\ UNCHANGED <<global_context, writeVars, evoVars, procVars, sanVars>>

\* what create_user(user_id) returns: False for an id of the index, True
\* after the six _write_json_file calls, whose results are not looked at
create_user_result(u) == ~InIndex(u)

\* create_user(user_id) when the last _write_json_file, that of
\* users_index.json, returns False: the result is not looked at
create_user_index_unwritten(u) ==
    /\ ~InIndex(u)
    /\ user_dirs' = user_dirs \cup {u}
    /\ files' = [files EXCEPT ![u] = DocNames]
    /\ user_profile' = [user_profile EXCEPT ![u] = BlankProfile(today)]
    /\ permanent_memories' = [permanent_memories EXCEPT ![u] = NoMemories]
    /\ conversation_history' = [conversation_history EXCEPT ![u] = <<>>]
    /\ user_facts' = [user_facts EXCEPT ![u] = NoFacts]
    /\ interaction_metrics' =
           [interaction_metrics EXCEPT
               ![u] = [BlankMetrics EXCEPT !.first_interaction = today]]
    /\ UNCHANGED <<message_history_limit, today, users_index, stored, fact_calls,
                   callVars>>
    /\ UNCHANGED <<global_context, writeVars, evoVars, procVars, sanVars>>

\* clear_user_data leaving the index as it is
index_remove_skipped(index, u) == index

\* clear_user_data writing an empty index
index_remove_all(index, u) == <<>>

\* users_index["users"].remove(safe_user_id)
index_remove(index, u) ==
    LET keep(x) == x # u IN SelectSeq(index, keep)

\* what clear_user_data(user_id) returns
clear_user_data_result(u) == user_exists(u)

\* clear_user_data(user_id): shutil.rmtree of the user's directory under
\* user_data_path, then the index entry; a document that is gone reads as
\* its default
clear_user_data(u) ==
    /\ IF user_exists(u)
       THEN /\ user_dirs' = user_dirs \ {u}
            /\ files' = [files EXCEPT ![u] = {}]
            /\ conversation_history' = [conversation_history EXCEPT ![u] = <<>>]
            /\ interaction_metrics' = [interaction_metrics EXCEPT ![u] = BlankMetrics]
            /\ user_facts' = [user_facts EXCEPT ![u] = NoFacts]
            /\ user_profile' = [user_profile EXCEPT ![u] = Dict(<<>>)]
            /\ permanent_memories' = [permanent_memories EXCEPT ![u] = NoMemories]
            /\ users_index' = index_remove(index_after_exists(u), u)
       ELSE UNCHANGED <<users_index, user_dirs, files, conversation_history,
                        interaction_metrics, user_facts, user_profile,
                        permanent_memories>>
    /\ UNCHANGED <<message_history_limit, today, stored, fact_calls, callVars>>
    /\ UNCHANGED <<global_context, writeVars, evoVars, procVars, sanVars>>

(* -------------------------- store_user_profile ------------------------- *)

\* an entry of a dict
Entry(key, value) == [key |-> key, value |-> value]

\* {"n": "<b>ann"}
ProfileName == Dict(<< Entry(<<"n">>, Str(<<"<", "b", ">", "a", "n", "n">>)) >>)

\* {"p": {"t": "dark"}}
ProfileTheme ==
    Dict(<< Entry(<<"p">>, Dict(<< Entry(<<"t">>, Str(<<"d", "a", "r", "k">>)) >>)) >>)

\* {"p": {"l": "en"}, "b": 1}
ProfileLang ==
    Dict(<< Entry(<<"p">>, Dict(<< Entry(<<"l">>, Str(<<"e", "n">>)) >>)),
            Entry(<<"b">>, Num(1)) >>)

\* {"p": None}
ProfileFlat == Dict(<< Entry(<<"p">>, Null) >>)

\* {"g": ["<b>y", {"<b>z": "<i>w"}, 3]}
ProfileList ==
    Dict(<< Entry(<<"g">>,
                  List(<< Str(<<"<", "b", ">", "y">>),
                          Dict(<< Entry(<<"<", "b", ">", "z">>,
                                        Str(<<"<", "i", ">", "w">>)) >>),
                          Num(3) >>)) >>)

\* {"g": [["<b>x"]]}
ProfileNested ==
    Dict(<< Entry(<<"g">>, List(<< List(<< Str(<<"<", "b", ">", "x">>) >>) >>)) >>)

\* {"<i>k": {"n": 1}, "k": 5}
ProfileClash ==
    Dict(<< Entry(<<"<", "i", ">", "k">>, Dict(<< Entry(<<"n">>, Num(1)) >>)),
            Entry(<<"k">>, Num(5)) >>)

\* the profile_data of the calls
Profiles == {ProfileName, ProfileTheme, ProfileLang, ProfileFlat, ProfileList,
             ProfileNested, ProfileClash}

\* store_user_profile writing the new data in place of the profile
merged_profile_replace(existing_profile, safe_profile_data) == safe_profile_data

\* updated_profile = self._deep_update(existing_profile, safe_profile_data)
merged_profile(existing_profile, safe_profile_data) ==
    deep_update(existing_profile, safe_profile_data)

\* store_user_profile(user_id, profile_data), update_user_profile
store_user_profile(u, profile_data) ==
    LET safe_profile_data == sanitize_dict(profile_data)
        existed == user_exists(u)
        \* after "if not self.user_exists(id): self.create_user(id)"
        existing_profile == IF existed THEN user_profile[u] ELSE BlankProfile(today)
    IN  /\ profile_calls < MaxProfileCalls
        /\ profile_calls' = profile_calls + 1
        /\ users_index' = IF existed THEN index_after_exists(u)
                          ELSE sorted_insert(users_index, u)
        /\ user_dirs' = user_dirs \cup {u}
        /\ files' = [files EXCEPT ![u] =
                        IF existed THEN @ \cup {"user_profile"} ELSE DocNames]
        /\ user_profile' =
               [user_profile EXCEPT
                   ![u] = merged_profile(existing_profile, safe_profile_data)]
        /\ conversation_history' =
               IF existed THEN conversation_history
               ELSE [conversation_history EXCEPT ![u] = <<>>]
        /\ interaction_metrics' =
               IF existed THEN interaction_metrics
               ELSE [interaction_metrics EXCEPT
                        ![u] = [BlankMetrics EXCEPT !.first_interaction = today]]
        /\ user_facts' = IF existed THEN user_facts
                         ELSE [user_facts EXCEPT ![u] = NoFacts]
        /\ permanent_memories' = IF existed THEN permanent_memories
                                 ELSE [permanent_memories EXCEPT ![u] = NoMemories]
        /\ UNCHANGED <<message_history_limit, today, stored, fact_calls,
                       memory_calls, rejected>>
        /\ UNCHANGED <<global_context, writeVars, evoVars, procVars, sanVars>>

\* get_user_profile(user_id)
get_user_profile(u) == IF ~user_exists(u) THEN Dict(<<>>) ELSE user_profile[u]

(* -------------------------- permanent memories ------------------------- *)

\* store_permanent_memory(user_id, memory_content, memory_type)
store_permanent_memory(u, memory_content, memory_type) ==
    LET safe_memory_content == sanitize_string(memory_content)
        safe_memory_type == sanitize_string(memory_type)
        existed == user_exists(u)
        memories == IF existed THEN permanent_memories[u] ELSE NoMemories
        memory_entry == [content |-> safe_memory_content, created_at |-> today,
                         updated_at |-> today]
    IN  /\ memory_calls < MaxMemories
        /\ memory_calls' = memory_calls + 1
        /\ users_index' = IF existed THEN index_after_exists(u)
                          ELSE sorted_insert(users_index, u)
        /\ user_dirs' = user_dirs \cup {u}
        /\ files' = [files EXCEPT ![u] =
                        IF existed THEN @ \cup {"permanent_memories"} ELSE DocNames]
        /\ permanent_memories' =
               [permanent_memories EXCEPT
                   ![u] = [memories EXCEPT ![safe_memory_type] = Append(@, memory_entry)]]
        /\ user_profile' = IF existed THEN user_profile
                           ELSE [user_profile EXCEPT ![u] = BlankProfile(today)]
        /\ conversation_history' =
               IF existed THEN conversation_history
               ELSE [conversation_history EXCEPT ![u] = <<>>]
        /\ interaction_metrics' =
               IF existed THEN interaction_metrics
               ELSE [interaction_metrics EXCEPT
                        ![u] = [BlankMetrics EXCEPT !.first_interaction = today]]
        /\ user_facts' = IF existed THEN user_facts
                         ELSE [user_facts EXCEPT ![u] = NoFacts]
        /\ UNCHANGED <<message_history_limit, today, stored, fact_calls,
                       profile_calls, rejected>>
        /\ UNCHANGED <<global_context, writeVars, evoVars, procVars, sanVars>>

\* get_permanent_memories(user_id, memory_type)
get_permanent_memories(u, memory_type) ==
    IF ~user_exists(u) THEN <<>>
    ELSE permanent_memories[u][sanitize_string(memory_type)]

\* the updates of update_permanent_memory: {"content": "<i>m2"}, {"n": 1}
content_key == <<"c", "o", "n", "t", "e", "n", "t">>

MemoryUpdates == { Dict(<< Entry(content_key, Str(<<"<", "i", ">", "m", "2">>)) >>),
                   Dict(<< Entry(<<"n">>, Num(1)) >>) }

\* the checks of update_permanent_memory and delete_permanent_memory, in
\* their order: the index, the user, the type and the length of its list
memory_addressed(u, memory_index, memory_type) ==
    /\ memory_index >= 0
    /\ user_exists(u)
    /\ memory_index < Len(permanent_memories[u][sanitize_string(memory_type)])

\* what the two operations leave behind when a check fails: user_exists has
\* run only if the index was not negative
memory_call_refused(u, memory_index) ==
    /\ users_index' = IF memory_index < 0 THEN users_index ELSE index_after_exists(u)
    /\ UNCHANGED <<message_history_limit, today, user_dirs, files,
                   conversation_history, interaction_metrics, user_facts, stored,
                   fact_calls, user_profile, permanent_memories, callVars>>
    /\ UNCHANGED <<global_context, writeVars, evoVars, procVars, sanVars>>

\* what the two operations write besides permanent_memories.json
memory_call_written(u) ==
    /\ users_index' = index_after_exists(u)
    /\ user_dirs' = user_dirs \cup {u}
    /\ files' = [files EXCEPT ![u] = @ \cup {"permanent_memories"}]
    /\ UNCHANGED <<message_history_limit, today, conversation_history,
                   interaction_metrics, user_facts, stored, fact_calls,
                   user_profile, callVars>>
    /\ UNCHANGED <<global_context, writeVars, evoVars, procVars, sanVars>>

\* what update_permanent_memory returns when the write succeeds
update_permanent_memory_result(u, memory_index, memory_type, updates) ==
    memory_addressed(u, memory_index, memory_type)

\* update_permanent_memory(user_id, memory_index, memory_type, updates)
update_permanent_memory(u, memory_index, memory_type, updates) ==
    LET safe_memory_type == sanitize_string(memory_type)
        safe_updates == sanitize_dict(updates)
        memory == permanent_memories[u][safe_memory_type][memory_index + 1]
        updated == [memory EXCEPT
                       !.content = IF HasKey(safe_updates, content_key)
                                   THEN Get(safe_updates, content_key).text ELSE @,
                       !.updated_at = today]
    IN  IF ~memory_addressed(u, memory_index, memory_type)
        THEN memory_call_refused(u, memory_index)
        ELSE /\ permanent_memories' =
                    [permanent_memories EXCEPT
                        ![u][safe_memory_type][memory_index + 1] = updated]
             /\ memory_call_written(u)

\* del list[i] taken as list.pop()
delete_at_last(list, i) == SubSeq(list, 1, Len(list) - 1)

\* del list[i], i counted from 0
delete_at(list, i) == SubSeq(list, 1, i) \o SubSeq(list, i + 2, Len(list))

\* what delete_permanent_memory returns when the write succeeds
delete_permanent_memory_result(u, memory_index, memory_type) ==
    memory_addressed(u, memory_index, memory_type)

\* delete_permanent_memory(user_id, memory_index, memory_type); a type whose
\* list became empty is removed, which reads as the empty list
delete_permanent_memory(u, memory_index, memory_type) ==
    LET safe_memory_type == sanitize_string(memory_type)
    IN  IF ~memory_addressed(u, memory_index, memory_type)
        THEN memory_call_refused(u, memory_index)
        ELSE /\ permanent_memories' =
                    [permanent_memories EXCEPT
                        ![u][safe_memory_type] = delete_at(@, memory_index)]
             /\ memory_call_written(u)

(* ----------------------------- global context -------------------------- *)

\* the keys callers pass: "k", "<b>k" (sanitizes to "k"), "j"
ContextKeyTexts == { <<"k">>, <<"<", "b", ">", "k">>, <<"j">> }

\* the keys global_context.json can have
ContextKeys == {sanitize_string(key) : key \in ContextKeyTexts}

\* the values callers pass: "<b>v", 42, None, {"<i>c": "<u>x"}, ["<b>y"]
ContextValues ==
    { Str(<<"<", "b", ">", "v">>), Num(42), Null,
      Dict(<< [key |-> <<"<", "i", ">", "c">>, value |-> Str(<<"<", "u", ">", "x">>)] >>),
      List(<< Str(<<"<", "b", ">", "y">>) >>) }

\* a key that global_context.json does not have
NoEntry == [present |-> FALSE, value |-> Null, updated_at |-> NoDate]

\* safe_value of set_global_context taken as the value itself
safe_context_value_raw(value) == value

\* safe_value of set_global_context: a dict and a string are sanitized,
\* anything else is stored as it is
safe_context_value(value) ==
    IF value.kind = "map" THEN sanitize_dict(value)
    ELSE IF value.kind = "str" THEN Str(sanitize_string(value.text))
    ELSE value

\* set_global_context(key, value)
set_global_context(key, value) ==
    /\ global_context' =
           [global_context EXCEPT
               ![sanitize_string(key)] =
                   [present |-> TRUE, value |-> safe_context_value(value),
                    updated_at |-> today]]
    /\ UNCHANGED <<message_history_limit, today, users_index, user_dirs, files,
                   conversation_history, interaction_metrics, user_facts, stored,
                   fact_calls, user_profile, permanent_memories, callVars>>
    /\ UNCHANGED <<writeVars, evoVars, procVars, sanVars>>

\* what get_global_context(key) returns; Null stands for None
get_global_context(key) ==
    LET context_entry == global_context[sanitize_string(key)]
    IN  IF context_entry.present THEN context_entry.value ELSE Null

\* what delete_global_context(key) returns when the write succeeds
delete_global_context_result(key) == TRUE

\* delete_global_context(key)
delete_global_context(key) ==
    /\ global_context' =
           IF global_context[sanitize_string(key)].present
           THEN [global_context EXCEPT ![sanitize_string(key)] = NoEntry]
           ELSE global_context
    /\ UNCHANGED <<message_history_limit, today, users_index, user_dirs, files,
                   conversation_history, interaction_metrics, user_facts, stored,
                   fact_calls, user_profile, permanent_memories, callVars>>
    /\ UNCHANGED <<writeVars, evoVars, procVars, sanVars>>

(* ----------------------- calls with the id as passed ------------------ *)

\* safe_user_id = self._sanitize_user_id(user_id), the first statement of a
\* store operation called with the id r as the caller passes it; <<>> stands
\* for the ValueError of an id without a valid character
safe_user_id(r) == sanitize_user_id(IdText[r])

\* a store operation op whose _sanitize_user_id raised: the operation's
\* "except Exception" catches the ValueError and returns the value failure
store_call(op, r, failure) ==
    /\ rejected' = rejected \cup {[op |-> op, user_id |-> r, outcome |-> failure]}
    /\ UNCHANGED <<message_history_limit, today, users_index, user_dirs,
                   files, conversation_history, interaction_metrics,
                   user_facts, stored, fact_calls, user_profile,
                   permanent_memories, profile_calls, memory_calls>>
    /\ UNCHANGED <<global_context, writeVars, evoVars, procVars, sanVars>>

(* --------------------- _write_json_file, _read_json_file --------------- *)

\* a serialized document is DocLen chunks long
DocLen == 2

\* the documents written to one file_path
Docs == {"d1", "d2"}

\* the callers of _write_json_file
Writers == {"w1", "w2"}

NoFile == [exists |-> FALSE, text |-> <<>>]

\* json.dump(data, f, indent=2, ensure_ascii=False): the text of document d
json_dump(d) == [i \in 1..DocLen |-> <<d, i>>]

\* what _read_json_file(file_path, default) returns for a file in this state
read_json_file(file) ==
    IF ~file.exists THEN "default"
    ELSE IF \E d \in Docs : file.text = json_dump(d)
         THEN CHOOSE d \in Docs : file.text = json_dump(d)
         ELSE "default"

\* _write_json_file removing the target before the rename
target_after_exists_check_remove(file) == NoFile

\* the target after "if os.path.exists(file_path)": the test changes nothing
target_after_exists_check(file) == file

\* _write_json_file opening file_path itself for writing
dump_path_in_place == "target"

\* the file json.dump writes to: temp_file = f"{file_path}.tmp"
dump_path == "temp"

\* a write of chunk c at offset pos of a file
write_at(text, pos, c) ==
    [i \in 1..Max(Len(text), pos) |->
        IF i = pos THEN c ELSE IF i <= Len(text) THEN text[i] ELSE <<"nul", 0>>]

Running == {"makedirs", "open", "dump", "exists", "replace"}

ActiveWriters == {w \in Writers : wpc[w] \in Running}

\* the documents a read may return now: the target when nothing is being
\* written, else the document before the write and the one being written
AllowedNow ==
    IF ActiveWriters = {} THEN {read_json_file(target_file)}
    ELSE UNION {{read_json_file(wold[w]), wdata[w]} : w \in ActiveWriters}

\* _write_json_file(file_path, data) is called
WriteBegin(w, d) ==
    /\ wpc[w] \in {"idle", "done", "killed"}
    /\ wpc' = [wpc EXCEPT ![w] = "makedirs"]
    /\ wdata' = [wdata EXCEPT ![w] = d]
    /\ wold' = [wold EXCEPT ![w] = target_file]
    /\ wpos' = [wpos EXCEPT ![w] = 0]
    /\ wsaw' = [wsaw EXCEPT ![w] = FALSE]
    /\ wresult' = [wresult EXCEPT ![w] = "none"]
    /\ rseen' = IF rpc \in {"exists", "open"} THEN rseen \cup {d} ELSE rseen
    /\ UNCHANGED <<target_file, temp_file, rpc, rresult>>
    /\ UNCHANGED <<wnode, storeVars, evoVars, procVars, sanVars>>

\* os.makedirs(os.path.dirname(file_path), exist_ok=True)
WriteMakedirs(w) ==
    /\ wpc[w] = "makedirs"
    /\ wpc' = [wpc EXCEPT ![w] = "open"]
    /\ UNCHANGED <<target_file, temp_file, wdata, wold, wpos, wsaw, wresult,
                   rpc, rseen, rresult>>
    /\ UNCHANGED <<wnode, storeVars, evoVars, procVars, sanVars>>

\* open(temp_file, 'w'): creates or truncates
WriteOpen(w) ==
    /\ wpc[w] = "open"
    /\ wpc' = [wpc EXCEPT ![w] = "dump"]
    /\ IF dump_path = "temp"
       THEN temp_file' = [exists |-> TRUE, text |-> <<>>] /\ UNCHANGED target_file
       ELSE target_file' = [exists |-> TRUE, text |-> <<>>] /\ UNCHANGED temp_file
    /\ wnode' = [wnode EXCEPT ![w] = dump_path]
    /\ UNCHANGED <<wdata, wold, wpos, wsaw, wresult, rpc, rseen, rresult>>
    /\ UNCHANGED <<storeVars, evoVars, procVars, sanVars>>

\* json.dump: the next chunk reaches the file that was opened, under the
\* name it has now; a file that was replaced has no name any more
WriteDump(w) ==
    /\ wpc[w] = "dump"
    /\ wpos[w] < DocLen
    /\ wpos' = [wpos EXCEPT ![w] = @ + 1]
    /\ CASE wnode[w] = "temp" ->
              /\ temp_file' = [exists |-> TRUE,
                               text |-> write_at(temp_file.text, wpos[w] + 1,
                                                 json_dump(wdata[w])[wpos[w] + 1])]
              /\ UNCHANGED target_file
         [] wnode[w] = "target" ->
              /\ target_file' = [exists |-> TRUE,
                                 text |-> write_at(target_file.text, wpos[w] + 1,
                                                   json_dump(wdata[w])[wpos[w] + 1])]
              /\ UNCHANGED temp_file
         [] OTHER -> UNCHANGED <<target_file, temp_file>>
    /\ UNCHANGED <<wpc, wdata, wold, wsaw, wresult, rpc, rseen, rresult>>
    /\ UNCHANGED <<wnode, storeVars, evoVars, procVars, sanVars>>

\* the with block closes the file; os.path.exists(file_path)
WriteExists(w) ==
    /\ wpc[w] = "dump"
    /\ wpos[w] = DocLen
    /\ wpc' = [wpc EXCEPT ![w] = "replace"]
    /\ wsaw' = [wsaw EXCEPT ![w] = target_file.exists]
    /\ target_file' = target_after_exists_check(target_file)
    /\ UNCHANGED <<temp_file, wdata, wold, wpos, wresult, rpc, rseen, rresult>>
    /\ wnode' = [wnode EXCEPT ![w] = "none"]
    /\ UNCHANGED <<storeVars, evoVars, procVars, sanVars>>

\* os.replace(temp_file, file_path) or os.rename(temp_file, file_path), then
\* return True; both raise when temp_file is gone
WriteReplace(w) ==
    /\ wpc[w] = "replace"
    /\ wpc' = [wpc EXCEPT ![w] = "done"]
    /\ IF temp_file.exists
       THEN /\ target_file' = temp_file
            /\ temp_file' = NoFile
            /\ wnode' = [v \in Writers |->
                            IF wnode[v] = "temp" THEN "target"
                            ELSE IF wnode[v] = "target" THEN "gone" ELSE wnode[v]]
            /\ wresult' = [wresult EXCEPT ![w] = "true"]
       ELSE /\ UNCHANGED <<target_file, temp_file, wnode>>
            /\ wresult' = [wresult EXCEPT ![w] = "false"]
    /\ UNCHANGED <<wdata, wold, wpos, wsaw, rpc, rseen, rresult>>
    /\ UNCHANGED <<storeVars, evoVars, procVars, sanVars>>

\* a step raises (makedirs, open, serialization or write in json.dump,
\* replace): except Exception: return False
WriteFail(w) ==
    /\ wpc[w] \in Running
    /\ wpc' = [wpc EXCEPT ![w] = "done"]
    /\ wresult' = [wresult EXCEPT ![w] = "false"]
    /\ UNCHANGED <<target_file, temp_file, wdata, wold, wpos, wsaw, rpc, rseen, rresult>>
    /\ wnode' = [wnode EXCEPT ![w] = "none"]
    /\ UNCHANGED <<storeVars, evoVars, procVars, sanVars>>

\* the process is killed inside _write_json_file
WriteKill(w) ==
    /\ wpc[w] \in Running
    /\ wpc' = [wpc EXCEPT ![w] = "killed"]
    /\ UNCHANGED <<target_file, temp_file, wdata, wold, wpos, wsaw, wresult,
                   rpc, rseen, rresult>>
    /\ wnode' = [wnode EXCEPT ![w] = "none"]
    /\ UNCHANGED <<storeVars, evoVars, procVars, sanVars>>

\* _read_json_file(file_path, default) is called
ReadBegin ==
    /\ rpc \in {"idle", "done"}
    /\ rpc' = "exists"
    /\ rseen' = AllowedNow
    /\ rresult' = "none"
    /\ UNCHANGED <<target_file, temp_file, wpc, wdata, wold, wpos, wsaw, wresult>>
    /\ UNCHANGED <<wnode, storeVars, evoVars, procVars, sanVars>>

\* os.path.exists(file_path); return default when it does not
ReadExists ==
    /\ rpc = "exists"
    /\ IF target_file.exists
       THEN rpc' = "open" /\ UNCHANGED rresult
       ELSE rpc' = "done" /\ rresult' = "default"
    /\ UNCHANGED <<target_file, temp_file, wpc, wdata, wold, wpos, wsaw, wresult, rseen>>
    /\ UNCHANGED <<wnode, storeVars, evoVars, procVars, sanVars>>

\* open(file_path) and json.load(f); default on JSONDecodeError or any error
ReadLoad ==
    /\ rpc = "open"
    /\ rpc' = "done"
    /\ rresult' = read_json_file(target_file)
    /\ UNCHANGED <<target_file, temp_file, wpc, wdata, wold, wpos, wsaw, wresult, rseen>>
    /\ UNCHANGED <<wnode, storeVars, evoVars, procVars, sanVars>>

(* -------------------------- PersonalityEvolution ----------------------- *)

\* self.stages
stages == <<"new", "acquaintance", "familiar", "close", "trusted", "intimate">>

\* self.stage_thresholds, in the order the dictionary is iterated
stage_thresholds ==
    << [stage |-> "acquaintance", threshold |-> 10],
       [stage |-> "familiar", threshold |-> 25],
       [stage |-> "close", threshold |-> 50],
       [stage |-> "trusted", threshold |-> 100],
       [stage |-> "intimate", threshold |-> 200] >>

\* self.stages.index(stage)
stage_index(stage) == CHOOSE i \in 1..Len(stages) : stages[i] = stage

\* the emotion labels EmotionAnalyzer.analyze returns
Emotions == {"joy", "sadness", "anger", "fear", "surprise", "neutral"}

Days == 1..MaxDay

\* evolution_stats[date] as created for a new date
BlankDay == [interaction_count |-> 0, meaningful_interactions |-> 0,
             total_depth |-> 0, emotions |-> [e \in Emotions |-> 0]]

\* what _load_evolution_data returns when there is no file; a date that is
\* not a key of evolution_stats reads as BlankDay
default_evolution_data(t) ==
    [stage |-> "new", interaction_count |-> 0, meaningful_interactions |-> 0,
     last_interaction |-> NoDate, first_interaction |-> t,
     stage_reached_at |-> NoDate,
     evolution_stats |-> [d \in Days |-> BlankDay]]

\* what get_relationship_data(user_id) returns
get_relationship_data(u) ==
    IF u \in evo_cached THEN evolution_data[u]
    ELSE IF u \in evo_saved THEN evo_file[u]
    ELSE default_evolution_data(today)

\* depth_score in 1/10000: depth_level and emotion_intensity are thousandths
depth_score(interaction_data) ==
    IF interaction_data.kind = "depth_level" THEN 10 * interaction_data.value
    ELSE IF interaction_data.kind = "emotion_intensity" THEN 7 * interaction_data.value
    ELSE 0

\* the test taken as depth_score >= 0.5
meaningful_inclusive(interaction_data) == depth_score(interaction_data) >= 5000

\* depth_score > 0.5
meaningful(interaction_data) == depth_score(interaction_data) > 5000

\* the threshold test with ">" in place of ">="
threshold_met_strict(meaningful_interactions, threshold) ==
    meaningful_interactions > threshold

\* meaningful_interactions >= threshold
threshold_met(meaningful_interactions, threshold) ==
    meaningful_interactions >= threshold

\* the loop "for stage, threshold in self.stage_thresholds.items()" from its
\* i-th entry on: data_stage is data["stage"] so far, current_stage the stage
\* read before the loop
RECURSIVE stage_loop(_, _, _, _)
stage_loop(i, current_stage, meaningful_interactions, data_stage) ==
    IF i > Len(stage_thresholds) THEN data_stage
    ELSE stage_loop(i + 1, current_stage, meaningful_interactions,
            IF /\ current_stage # stage_thresholds[i].stage
               /\ threshold_met(meaningful_interactions, stage_thresholds[i].threshold)
               /\ stage_index(stage_thresholds[i].stage) > stage_index(current_stage)
            THEN stage_thresholds[i].stage
            ELSE data_stage)

\* the stage check without the forward test, stopping at the first match
stage_after_first_match(current_stage, meaningful_interactions) ==
    LET hits == {i \in 1..Len(stage_thresholds) :
                    /\ current_stage # stage_thresholds[i].stage
                    /\ meaningful_interactions >= stage_thresholds[i].threshold}
    IN  IF hits = {} THEN current_stage
        ELSE stage_thresholds[CHOOSE i \in hits : \A j \in hits : i <= j].stage

\* data["stage"] after "Check for stage progression"
stage_after(current_stage, meaningful_interactions) ==
    stage_loop(1, current_stage, meaningful_interactions, current_stage)

\* the data update_evolution_stats leaves in the cache and saves
evolution_after(data, interaction_data, t) ==
    LET deep == meaningful(interaction_data)
        meaningful_interactions ==
            data.meaningful_interactions + (IF deep THEN 1 ELSE 0)
        new_stage == stage_after(data.stage, meaningful_interactions)
        daily_stats == data.evolution_stats[t]
    IN  [data EXCEPT
            !.interaction_count = @ + 1,
            !.last_interaction = t,
            !.meaningful_interactions = meaningful_interactions,
            !.stage = new_stage,
            !.stage_reached_at = IF new_stage # data.stage THEN t ELSE @,
            !.evolution_stats[t] =
                [interaction_count |-> daily_stats.interaction_count + 1,
                 meaningful_interactions |->
                     daily_stats.meaningful_interactions + (IF deep THEN 1 ELSE 0),
                 total_depth |-> daily_stats.total_depth + depth_score(interaction_data),
                 emotions |->
                     IF interaction_data.emotion = "none" THEN daily_stats.emotions
                     ELSE [daily_stats.emotions EXCEPT ![interaction_data.emotion] = @ + 1]]]

\* update_evolution_stats(user_id, interaction_data)
update_evolution_stats(u, interaction_data) ==
    /\ evo_dirs' = evo_dirs \cup {u}
    /\ evo_cached' = evo_cached \cup {u}
    /\ evolution_data' =
           [evolution_data EXCEPT
               ![u] = evolution_after(get_relationship_data(u), interaction_data, today)]
    /\ evo_file' = [evo_file EXCEPT ![u] = evolution_data'[u]]
    /\ evo_saved' = evo_saved \cup {u}
    /\ UNCHANGED <<storeVars, writeVars, procVars, sanVars>>

\* get_relationship_data(user_id) called for its own sake: fills the cache
load_relationship_data(u) ==
    /\ u \notin evo_cached
    /\ evo_dirs' = evo_dirs \cup {u}
    /\ evo_cached' = evo_cached \cup {u}
    /\ evolution_data' = [evolution_data EXCEPT ![u] = get_relationship_data(u)]
    /\ UNCHANGED <<evo_file, evo_saved>>
    /\ UNCHANGED <<storeVars, writeVars, procVars, sanVars>>

\* the process ends and a new PersonalityEvolution() starts with an empty cache
EvolutionRestart ==
    /\ evo_cached # {}
    /\ evo_cached' = {}
    /\ evolution_data' = [u \in RawIds |-> default_evolution_data(1)]
    /\ UNCHANGED <<evo_file, evo_saved, evo_dirs>>
    /\ UNCHANGED <<storeVars, writeVars, procVars, sanVars>>

(* ------------------------------ process_message ------------------------ *)

\* the messages of the scenario: "hi", "I am so sad today",
\* "I feel anxious about work"
ProcMessages == {"hi", "sad", "anxious"}

\* EmotionAnalyzer.analyze(text) on these messages, in thousandths:
\* "hi": no keyword, 1 word; "sad": 1 keyword of sadness in 5 words;
\* "anxious": 1 keyword of fear in 5 words, "feel" adds 0.2 depth
analyze(message) ==
    IF message = "hi" THEN [emotion |-> "neutral", intensity |-> 0, depth |-> 50]
    ELSE IF message = "sad" THEN [emotion |-> "sadness", intensity |-> 400, depth |-> 250]
    ELSE [emotion |-> "fear", intensity |-> 400, depth |-> 450]

\* persistent_emotions[emotion] as created; count 0 stands for no key
BlankPersistent == [count |-> 0, first_seen |-> NoDate, last_seen |-> NoDate,
                    duration_days |-> 0, intensity_sum |-> 0]

NoEmotionalHistory ==
    [recent_emotions |-> <<>>, persistent_emotions |-> [e \in Emotions |-> BlankPersistent]]

\* recent_emotions trimmed to its first 10 entries
last_emotions_oldest(recent_emotions) ==
    IF Len(recent_emotions) > 10 THEN SubSeq(recent_emotions, 1, 10) ELSE recent_emotions

\* "Keep only last 10 emotions": recent_emotions[-10:] when it is longer
last_emotions(recent_emotions) ==
    IF Len(recent_emotions) > 10 THEN py_tail(recent_emotions, 10) ELSE recent_emotions

\* user_data["emotional_history"] after update_emotional_trend
emotional_history_after(history, emotion, intensity, t) ==
    LET appended == Append(history.recent_emotions,
                           [emotion |-> emotion, intensity |-> intensity, timestamp |-> t])
        persistent == history.persistent_emotions[emotion]
        first_seen == IF persistent.count = 0 THEN t ELSE persistent.first_seen
    IN  [recent_emotions |-> last_emotions(appended),
         persistent_emotions |->
             [history.persistent_emotions EXCEPT
                 ![emotion] = [count |-> persistent.count + 1,
                               first_seen |-> first_seen,
                               last_seen |-> t,
                               duration_days |-> t - first_seen,
                               intensity_sum |-> persistent.intensity_sum + intensity]]]

\* current_escalation_level of an emotion that is not a key of
\* user_data["emotion_persistence"]
NoLevel == -1

\* user_data without the key "emotion_persistence"
NoPersistence == [e \in Emotions \cup {"anxiety"} |-> NoLevel]

\* update_emotional_trend(user_id, emotion, intensity)
update_emotional_trend(u, emotion, intensity) ==
    /\ emotional_history' =
           [emotional_history EXCEPT
               ![u] = emotional_history_after(@, emotion, intensity, today)]
    /\ factory_files' = factory_files \cup {u}
    /\ UNCHANGED <<tracker, emotion_persistence>>
    /\ UNCHANGED <<storeVars, writeVars, evoVars, sanVars>>

\* the emotions get_comfort_escalation_response answers
ComfortEmotions == {"sadness", "anxiety", "anger", "fear"}

\* comfort_category of an emotion
comfort_category(emotion) ==
    CASE emotion = "sadness" -> "sadness"
      [] emotion = "fear"    -> "anxiety"
      [] emotion = "anxiety" -> "anxiety"
      [] emotion = "anger"   -> "anger"
      [] OTHER               -> "sadness"

\* len(self.comfort_escalation_levels[comfort_category]), the same for the
\* three categories
LadderLen == 5

\* the return value None
NoResponse == [category |-> "none", level |-> NoLevel]

\* what get_comfort_escalation_response(user_id, emotion) returns: the entry
\* of the category's list at the level, None for another emotion
comfort_escalation_response(u, emotion) ==
    LET escalation_level == emotion_persistence[u][emotion]
    IN  IF emotion \notin ComfortEmotions THEN NoResponse
        ELSE [category |-> comfort_category(emotion),
              level |-> IF escalation_level = NoLevel THEN 0
                        ELSE IF escalation_level >= LadderLen THEN LadderLen - 1
                        ELSE escalation_level]

\* get_comfort_escalation_response(user_id, emotion): _load_user_data saves
\* the default user data when the file is not there
get_comfort_escalation_response(u, emotion) ==
    /\ factory_files' = IF emotion \in ComfortEmotions THEN factory_files \cup {u}
                        ELSE factory_files
    /\ UNCHANGED <<tracker, emotional_history, emotion_persistence>>
    /\ UNCHANGED <<storeVars, writeVars, evoVars, sanVars>>

\* update_metrics(message_data): returns None and changes nothing
update_metrics(data, message_data) == data

TotalProcessed ==
    LET RECURSIVE Sum(_)
        Sum(S) == IF S = {} THEN 0
                  ELSE LET x == CHOOSE y \in S : TRUE IN tracker[x] + Sum(S \ {x})
    IN  Sum(RawIds)

\* process_message(user_id, message): tracker, analyzer, adaptation, the
\* relationship data read, update_metrics; the composed text is not modelled
process_message(u, message) ==
    LET analysis == analyze(message)
        \* min(0.9, depth * 0.7 + intensity * 0.3) in 1/10000
        conversation_depth ==
            IF 7 * analysis.depth + 3 * analysis.intensity > 9000 THEN 9000
            ELSE 7 * analysis.depth + 3 * analysis.intensity
        message_data == [emotion |-> analysis.emotion,
                         emotion_intensity |-> analysis.intensity,
                         depth_level |-> conversation_depth]
    IN  /\ TotalProcessed < MaxProcessed
        /\ tracker' = [tracker EXCEPT ![u] = @ + 1]
        /\ emotional_history' =
               [emotional_history EXCEPT
                   ![u] = emotional_history_after(@, analysis.emotion,
                                                  analysis.intensity, today)]
        /\ factory_files' = factory_files \cup {u}
        /\ UNCHANGED emotion_persistence
        /\ evo_dirs' = evo_dirs \cup {u}
        /\ evo_cached' = evo_cached \cup {u}
        /\ evolution_data' =
               [evolution_data EXCEPT
                   ![u] = update_metrics(get_relationship_data(u), message_data)]
        /\ UNCHANGED <<evo_file, evo_saved>>
        /\ UNCHANGED <<storeVars, writeVars, sanVars>>

(* ------------------------------ initial state -------------------------- *)

\* after JsonMemoryStore(...).initialize(): an empty store
InitStore ==
    /\ message_history_limit \in 0..MaxLimit
    /\ today = 1
    /\ users_index = <<>>
    /\ user_dirs = {}
    /\ files = [u \in Users |-> {}]
    /\ conversation_history = [u \in Users |-> <<>>]
    /\ interaction_metrics = [u \in Users |-> BlankMetrics]
    /\ user_facts = [u \in Users |-> NoFacts]
    /\ stored = [u \in Users |-> <<>>]
    /\ fact_calls = [u \in Users |-> 0]
    /\ user_profile = [u \in Users |-> Dict(<<>>)]
    /\ permanent_memories = [u \in Users |-> NoMemories]
    /\ profile_calls = 0
    /\ memory_calls = 0
    /\ rejected = {}
    /\ global_context = [k \in ContextKeys |-> NoEntry]

InitWrite ==
    /\ target_file = NoFile
    /\ temp_file = NoFile
    /\ wpc = [w \in Writers |-> "idle"]
    /\ wdata = [w \in Writers |-> "d1"]
    /\ wold = [w \in Writers |-> NoFile]
    /\ wpos = [w \in Writers |-> 0]
    /\ wsaw = [w \in Writers |-> FALSE]
    /\ wnode = [w \in Writers |-> "none"]
    /\ wresult = [w \in Writers |-> "none"]
    /\ rpc = "idle"
    /\ rseen = {}
    /\ rresult = "none"

\* after PersonalityEvolution(): empty cache, no evolution_data.json
InitEvo ==
    /\ evolution_data = [u \in RawIds |-> default_evolution_data(1)]
    /\ evo_cached = {}
    /\ evo_file = [u \in RawIds |-> default_evolution_data(1)]
    /\ evo_saved = {}
    /\ evo_dirs = {}

\* after ElysiaPersonalitySystem(): nothing tracked, no <id>.json
InitProc ==
    /\ tracker = [u \in RawIds |-> 0]
    /\ emotional_history = [u \in RawIds |-> NoEmotionalHistory]
    /\ emotion_persistence = [u \in RawIds |-> NoPersistence]
    /\ factory_files = {}

InitSan ==
    /\ san_kind = "text"
    /\ san_given = <<>>
    /\ san_text = <<>>
    /\ san_calls = 0

Init == InitStore /\ InitWrite /\ InitEvo /\ InitProc /\ InitSan

(* ------------------- conversation history: SpecMsg --------------------- *)

NextMsg ==
    \/ \E u \in Users : create_user(u)
    \/ \E u \in Users, message \in Contents, is_user \in BOOLEAN :
          store_message(u, message, is_user)

SpecMsg == Init /\ [][NextMsg]_vars

\* the last n elements of s
LastN(s, n) == [i \in 1..n |-> s[Len(s) - n + i]]

\* C1: for every limit L the persisted history never holds more than L
\* messages, and once more than L messages were stored for a user,
\* get_recent_messages(id) without a limit returns exactly the L most
\* recently stored messages in the order they were stored.
C1_HistoryBound ==
    \A u \in Users :
        /\ Len(conversation_history[u]) <= message_history_limit
        /\ Len(stored[u]) > message_history_limit
              => get_recent_messages(u, 0) = LastN(stored[u], message_history_limit)

(* ------------------------- streaks: SpecStreak ------------------------- *)

\* one user's metrics: the streak transitions of two users are independent
StreakUsers == {"alice"}

NextStreak ==
    \/ \E u \in StreakUsers : create_user(u)
    \/ \E u \in StreakUsers, is_user \in BOOLEAN : store_message(u, <<"h", "i">>, is_user)
    \/ \E u \in StreakUsers : update_streak(u)
    \/ Tick

SpecStreak == Init /\ [][NextStreak]_vars

\* what the streak law requires of a direct update_streak step of user u
StreakLaw(u) ==
    LET old == interaction_metrics[u]
        new == interaction_metrics'[u]
    IN  /\ old.last_interaction_date = NoDate => new.streak_days = 1
        /\ old.last_interaction_date = today => new.streak_days = old.streak_days
        /\ (old.last_interaction_date # NoDate /\ old.last_interaction_date = today - 1)
              => new.streak_days = old.streak_days + 1
        /\ (old.last_interaction_date # NoDate /\ old.last_interaction_date < today - 1)
              => new.streak_days = 1
        /\ new.longest_streak = Max(old.longest_streak, new.streak_days)
        /\ new.last_interaction_date = today

\* C5: update_streak is a state machine over calendar dates: no prior date
\* gives streak 1, prior date today leaves the streak, prior date yesterday
\* adds 1, a gap of two or more days resets to 1; longest_streak becomes the
\* maximum of its old value and the new streak, so that
\* longest_streak >= streak_days in every reachable state.
C5_StreakStateMachine ==
    /\ [](\A u \in Users :
            interaction_metrics[u].longest_streak >= interaction_metrics[u].streak_days)
    /\ [][\A u \in StreakUsers :
            (update_streak(u) /\ user_exists(u)) => StreakLaw(u)]_vars

\* a streak of two consecutive days was broken by a gap: reset to 1 on the
\* last day, the longest streak still 2
C5_Witness ==
    \E u \in StreakUsers :
        /\ interaction_metrics[u].streak_days = 1
        /\ interaction_metrics[u].longest_streak = 2
        /\ interaction_metrics[u].last_interaction_date = MaxDay

\* C6: a store_message call with is_user true leaves in
\* interaction_metrics.json the streak_days, longest_streak and
\* last_interaction_date that update_streak computes for that day, and
\* message_count increased by 1; with is_user false the streak fields are
\* unchanged.
C6_StoreMessageAppliesStreak ==
    [][\A u \in StreakUsers, is_user \in BOOLEAN :
          store_message(u, <<"h", "i">>, is_user) =>
             LET old == interaction_metrics[u]
                 new == interaction_metrics'[u]
                 computed == update_streak_metrics(old, today)
             IN  /\ new.message_count = old.message_count + 1
                 /\ is_user =>
                       /\ new.streak_days = computed.streak_days
                       /\ new.longest_streak = computed.longest_streak
                       /\ new.last_interaction_date = computed.last_interaction_date
                 /\ ~is_user =>
                       /\ new.streak_days = old.streak_days
                       /\ new.longest_streak = old.longest_streak
                       /\ new.last_interaction_date = old.last_interaction_date]_vars

(* ----------------------------- facts: SpecFacts ------------------------ *)

NextFacts ==
    \/ \E u \in Users : create_user(u)
    \/ \E u \in Users, fact_type \in FactTypes, fact_value \in FactValues :
          store_user_fact(u, fact_type, fact_value)

SpecFacts == Init /\ [][NextFacts]_vars

Occurrences(list, x) == Cardinality({i \in 1..Len(list) : list[i] = x})

IsPrefix(s, t) == Len(s) <= Len(t) /\ \A i \in 1..Len(s) : s[i] = t[i]

\* C10: store_user_fact is an idempotent append: no category ever holds a
\* string twice; a call leaves exactly one entry with the stored value in its
\* category, changes nothing in the categories when the value was there, and
\* otherwise appends it, so every list keeps first-insertion order.
C10_FactIdempotence ==
    /\ [](\A u \in Users, c \in Categories, v \in FactValues :
            Occurrences(user_facts[u].categories[c], v) <= 1)
    /\ [][\A u \in Users, fact_type \in FactTypes, fact_value \in FactValues :
            store_user_fact(u, fact_type, fact_value) =>
               LET c == sanitize_string(fact_type)
                   v == sanitize_string(fact_value)
                   old == user_facts[u].categories
                   new == user_facts'[u].categories
               IN  /\ Occurrences(new[c], v) = 1
                   /\ Contains(old[c], v) => new = old
                   /\ ~Contains(old[c], v) => new[c] = Append(old[c], v)
                   /\ \A d \in Categories : IsPrefix(old[d], new[d])
                   /\ get_user_facts(u, fact_type)' = new[c]]_vars

\* a user for whom a value was stored again: more successful calls than entries
C10_Witness ==
    \E u \in Users :
        /\ Len(user_facts[u].categories[<<"p", "e", "t">>]) = 2
        /\ fact_calls[u] > Len(user_facts[u].categories[<<"p", "e", "t">>])
                          + Len(user_facts[u].categories[<<"j", "o", "b">>])

(* ------------------- one writer and a reader: SpecWrite ---------------- *)

OneWriter == {"w1"}

NextWrite ==
    \/ \E w \in OneWriter, d \in Docs : WriteBegin(w, d)
    \/ \E w \in OneWriter : WriteMakedirs(w)
    \/ \E w \in OneWriter : WriteOpen(w)
    \/ \E w \in OneWriter : WriteDump(w)
    \/ \E w \in OneWriter : WriteExists(w)
    \/ \E w \in OneWriter : WriteReplace(w)
    \/ \E w \in OneWriter : WriteFail(w)
    \/ \E w \in OneWriter : WriteKill(w)
    \/ ReadBegin
    \/ ReadExists
    \/ ReadLoad

SpecWrite == Init /\ [][NextWrite]_vars

\* the file holds a complete document
Complete(file) == file.exists /\ \E d \in Docs : file.text = json_dump(d)

\* C2: whenever the process is killed inside a document write, in particular
\* between the temp-file write and the rename, the target is never truncated
\* or invalid, and a read after the restart returns the complete old document
\* (the default when there was none) or the complete new one.
C2_KillLeavesOldOrNew ==
    /\ ~target_file.exists \/ Complete(target_file)
    /\ \A w \in OneWriter :
          wpc[w] = "killed" =>
             /\ target_file = wold[w] \/ target_file.text = json_dump(wdata[w])
             /\ read_json_file(target_file) \in {read_json_file(wold[w]), wdata[w]}

\* killed between the temp-file write and the rename, an old document in place
C2_Witness ==
    \E w \in OneWriter :
        /\ wpc[w] = "killed"
        /\ Complete(temp_file)
        /\ temp_file.text = json_dump(wdata[w])
        /\ Complete(target_file)
        /\ target_file.text # json_dump(wdata[w])

\* C3: a read that runs while a write of the same document is in progress
\* returns the complete previous document (the default when none existed) or
\* the complete new document, never a partial one.
C3_ReaderSeesOldOrNew ==
    rpc = "done" => rresult \in rseen

\* a read returned the previous document while the write of another one had
\* its temporary file half written
C3_Witness ==
    \E w \in OneWriter :
        /\ rpc = "done"
        /\ wpc[w] = "dump"
        /\ wpos[w] = 1
        /\ wold[w].exists
        /\ rresult = read_json_file(wold[w])
        /\ rresult # wdata[w]
        /\ rseen = {rresult, wdata[w]}

\* C4: a write that fails at any step returns false and leaves the target
\* document exactly as it was before the call.
C4_FailedWriteLeavesTarget ==
    /\ [](\A w \in OneWriter :
            (wpc[w] = "done" /\ wresult[w] = "false") => target_file = wold[w])
    /\ [][\A w \in OneWriter :
            WriteFail(w) => (wresult'[w] = "false" /\ target_file' = wold[w])]_vars

\* json.dump failed after the first chunk, with an old document in place
C4_Witness ==
    \E w \in OneWriter :
        /\ wpc[w] = "done"
        /\ wresult[w] = "false"
        /\ wold[w].exists
        /\ temp_file.exists
        /\ Len(temp_file.text) = 1

(* ----------------------- relationship stages: SpecEvo ------------------ *)

EvoUsers == {"alice"}

\* depth_level 0.9 as process_message caps it, depth_level 0.5 (not above
\* 0.5), emotion_intensity 0.715 (score 0.5005) and 0.714 (score 0.4998),
\* and neither key
EvoInputs ==
    { [kind |-> "depth_level", value |-> 900, emotion |-> "none"],
      [kind |-> "depth_level", value |-> 500, emotion |-> "sadness"],
      [kind |-> "emotion_intensity", value |-> 715, emotion |-> "joy"],
      [kind |-> "emotion_intensity", value |-> 714, emotion |-> "none"],
      [kind |-> "none", value |-> 0, emotion |-> "none"] }

EmotionCalls(data) ==
    LET RECURSIVE Sum(_)
        Sum(S) == IF S = {} THEN 0
                  ELSE LET x == CHOOSE y \in S : TRUE
                       IN  data.evolution_stats[x[1]].emotions[x[2]] + Sum(S \ {x})
    IN  Sum(Days \X Emotions)

\* the calls the bounds admit
EvoBudget(u, interaction_data) ==
    LET data == get_relationship_data(u)
    IN  /\ data.interaction_count < MaxInteractions
        /\ ~meaningful(interaction_data)
              => data.interaction_count - data.meaningful_interactions < MaxShallow
        /\ interaction_data.emotion # "none" => EmotionCalls(data) < MaxEmotionCalls

NextEvo ==
    \/ \E u \in EvoUsers, interaction_data \in EvoInputs :
          EvoBudget(u, interaction_data) /\ update_evolution_stats(u, interaction_data)
    \/ \E u \in EvoUsers : load_relationship_data(u)
    \/ EvolutionRestart

SpecEvo == Init /\ [][NextEvo]_vars

\* C7: over any sequence of update_evolution_stats calls the index of the
\* user's stage in [new, acquaintance, familiar, close, trusted, intimate]
\* never decreases from one call to the next.
C7_StageMonotone ==
    [][\A u \in EvoUsers :
          stage_index(get_relationship_data(u).stage)'
              >= stage_index(get_relationship_data(u).stage)]_vars

\* a user who went on past the familiar threshold
C7_Witness ==
    \E u \in EvoUsers :
        /\ u \in evo_cached
        /\ evolution_data[u].stage = "familiar"
        /\ evolution_data[u].meaningful_interactions = 30
        /\ evolution_data[u].interaction_count = 32

\* the highest stage whose threshold the count has reached
HighestStage(n) ==
    IF n >= 200 THEN "intimate"
    ELSE IF n >= 100 THEN "trusted"
    ELSE IF n >= 50 THEN "close"
    ELSE IF n >= 25 THEN "familiar"
    ELSE IF n >= 10 THEN "acquaintance"
    ELSE "new"

\* C8: for a user that starts at stage new with zero counts, the stored stage
\* is after every update_evolution_stats call the highest stage whose
\* threshold (10, 25, 50, 100, 200) is at most the cumulative
\* meaningful_interactions, and new below 10: a function of that count alone.
C8_StageIsFunctionOfCount ==
    \A u \in EvoUsers :
        /\ u \in evo_cached =>
              evolution_data[u].stage = HighestStage(evolution_data[u].meaningful_interactions)
        /\ u \in evo_saved =>
              evo_file[u].stage = HighestStage(evo_file[u].meaningful_interactions)

\* the last threshold reached
C8_Witness ==
    \E u \in EvoUsers :
        /\ u \in evo_saved
        /\ evo_file[u].stage = "intimate"
        /\ evo_file[u].meaningful_interactions = 200
        /\ evo_file[u].interaction_count = 202

(* ------------------------- process_message: SpecProc ------------------- *)

NextProc ==
    \/ \E u \in Users, message \in ProcMessages : process_message(u, message)

SpecProc == Init /\ [][NextProc]_vars

\* C9: after N messages of a new user have been processed by
\* process_message, get_relationship_data(user).interaction_count is N.
C9_InteractionCountIsProcessed ==
    \A u \in Users : get_relationship_data(u).interaction_count = tracker[u]


(* --------------------- creating a user: SpecCreate --------------------- *)

NextCreate ==
    \/ \E u \in Users : create_user(u)
    \/ \E u \in Users : create_user_index_unwritten(u)
    \/ \E u \in Users : check_user_exists(u)
    \/ \E u \in Users, is_user \in BOOLEAN : store_message(u, <<"h", "i">>, is_user)

SpecCreate == Init /\ [][NextCreate]_vars

\* the five documents of user u
Documents(u) ==
    <<files[u], user_profile[u], conversation_history[u], user_facts[u],
      interaction_metrics[u], permanent_memories[u]>>

\* C11: create_user(id) returns false and changes no document when the user
\* is present, in the index or as a directory whose index entry is missing;
\* only for an absent user does it write the five initial documents and add
\* the id to the index.
C11_CreateUserOnlyWhenAbsent ==
    [][\A u \in Users :
          create_user(u) =>
             IF user_exists(u)
             THEN /\ ~create_user_result(u)
                  /\ UNCHANGED <<Documents(u), users_index>>
             ELSE /\ create_user_result(u)
                  /\ files'[u] = DocNames
                  /\ conversation_history'[u] = <<>>
                  /\ user_facts'[u] = NoFacts
                  /\ permanent_memories'[u] = NoMemories
                  /\ InIndex(u)']_vars


(* ------------------------ the users index: SpecIndex ------------------- *)

\* the calls of a behaviour that write a message, a fact, a profile or a memory
OpsDone == TotalStored + TotalFactCalls + profile_calls + memory_calls

\* at most MaxOps of them
MaxOps == 3

NextIndex ==
    \/ \E u \in Users : create_user(u)
    \/ \E u \in Users : check_user_exists(u)
    \/ \E u \in Users : clear_user_data(u)
    \/ \E u \in Users :
          OpsDone < MaxOps /\ store_message(u, <<"h", "i">>, TRUE)
    \/ \E u \in Users :
          OpsDone < MaxOps /\ store_user_profile(u, ProfileTheme)
    \/ \E u \in Users :
          OpsDone < MaxOps /\ store_user_fact(u, <<"p", "e", "t">>, <<"g", "o">>)
    \/ \E u \in Users :
          OpsDone < MaxOps /\ store_permanent_memory(u, <<"m", "1">>, <<"g", "o", "a", "l">>)

SpecIndex == Init /\ [][NextIndex]_vars

MaxRecordCalls == 2

NextRecord ==
    \/ \E u \in Users : create_user(u)
    \/ \E u \in Users : clear_user_data(u)
    \/ \E u \in Users :
          OpsDone < MaxOps /\ store_message(u, <<"h", "i">>, TRUE)
    \/ \E u \in Users :
          /\ get_relationship_data(u).interaction_count < MaxRecordCalls
          /\ update_evolution_stats(u, [kind |-> "depth_level", value |-> 900,
                                        emotion |-> "none"])
    \/ \E u \in Users :
          TotalProcessed < MaxRecordCalls /\ process_message(u, "sad")

SpecRecord == Init /\ [][NextRecord]_vars

\* C13: no orphan writes: whenever a document of a user is on disk (profile,
\* history, facts, metrics, memories or evolution_data) the user has been
\* created: the id is in the index and the initial documents exist.
C13_NoOrphanWrites ==
    \A u \in Users :
        (files[u] # {} \/ u \in evo_saved) => (InIndex(u) /\ files[u] = DocNames)

\* C14: clear_user_data(id) on an existing user returns true and destroys
\* the whole record: no document of the user remains (profile, history,
\* facts, metrics, memories, evolution_data, emotional history), the id is
\* not in the index, user_exists(id) is false, reads return the empty
\* defaults and the relationship stage read is that of a new user; on a user
\* that does not exist it returns false and changes nothing.
C14_ClearDestroysRecord ==
    [][\A u \in Users :
          clear_user_data(u) =>
             IF user_exists(u)
             THEN /\ clear_user_data_result(u)
                  /\ files'[u] = {}
                  /\ ~InIndex(u)'
                  /\ ~user_exists(u)'
                  /\ get_recent_messages(u, 0)' = <<>>
                  /\ get_user_profile(u)' = Dict(<<>>)
                  /\ u \notin evo_saved'
                  /\ u \notin factory_files'
                  /\ get_relationship_data(u)' = default_evolution_data(today)
             ELSE /\ ~clear_user_data_result(u)
                  /\ UNCHANGED vars]_vars


(* --------------------- ids as callers pass them: SpecIds --------------- *)

\* the writing store calls of a behaviour of SpecIds, and its
\* update_evolution_stats calls per id
MaxIdOps == 1

\* the ids the personality layer is called with
PathIds == {"alice", "../bob"}

NextIds ==
    \/ \E r \in RawIds :
          IF safe_user_id(r) = <<>> THEN store_call("create_user", r, "False")
          ELSE create_user(IdOf(safe_user_id(r)))
    \/ \E r \in RawIds :
          IF safe_user_id(r) = <<>> THEN store_call("store_message", r, "False")
          ELSE /\ OpsDone < MaxIdOps
               /\ store_message(IdOf(safe_user_id(r)), <<"h", "i">>, TRUE)
    \/ \E r \in RawIds :
          IF safe_user_id(r) = <<>> THEN store_call("get_recent_messages", r, "[]")
          ELSE check_user_exists(IdOf(safe_user_id(r)))
    \/ \E r \in RawIds :
          IF safe_user_id(r) = <<>> THEN store_call("store_user_fact", r, "False")
          ELSE /\ OpsDone < MaxIdOps
               /\ store_user_fact(IdOf(safe_user_id(r)), <<"p", "e", "t">>, <<"g", "o">>)
    \/ \E r \in RawIds :
          IF safe_user_id(r) = <<>> THEN store_call("clear_user_data", r, "False")
          ELSE clear_user_data(IdOf(safe_user_id(r)))
    \/ \E r \in PathIds :
          /\ get_relationship_data(r).interaction_count < MaxIdOps
          /\ update_evolution_stats(r, [kind |-> "depth_level", value |-> 900,
                                        emotion |-> "none"])
    \/ \E r \in PathIds :
          /\ emotional_history[r].recent_emotions = <<>>
          /\ update_emotional_trend(r, "sadness", 400)

SpecIds == Init /\ [][NextIds]_vars

\* the text is not empty and has only characters of [A-Za-z0-9_-]
ValidId(text) == text # <<>> /\ \A i \in 1..Len(text) : text[i] \in IdChars

\* C15: every filesystem path that an operation writing a user's data
\* touches (the store's directory <id>, the evolution directory user_<id>,
\* the factory's <id>.json) is built from a non-empty id with only
\* characters of [A-Za-z0-9_-]; no separator or ".." of the id as passed
\* reaches the filesystem.
C15_PathsFromSanitizedIds ==
    /\ \A u \in user_dirs : ValidId(IdText[u])
    /\ \A r \in evo_dirs : ValidId(IdText[r])
    /\ \A r \in factory_files : ValidId(IdText[r])

\* C16: a storage operation called with an id that has no character of
\* [A-Za-z0-9_-] ends in the InvalidIdentifier error (the ValueError of
\* _sanitize_user_id) reaching the caller, not in a default return value.
C16_InvalidIdRaises ==
    \A call \in rejected : call.outcome = "ValueError"


(* --------------------------- profiles: SpecProfile --------------------- *)

NextProfile ==
    \/ \E u \in Users : create_user(u)
    \/ \E u \in Users, profile_data \in Profiles : store_user_profile(u, profile_data)

SpecProfile == Init /\ [][NextProfile]_vars

\* the text has a tag-shaped substring "<...>"
HasTag(text) ==
    \E i, j \in 1..Len(text) : i < j /\ text[i] = "<" /\ text[j] = ">"

\* no key and no string of the value, at any depth, has a tag-shaped substring
RECURSIVE NoTag(_)
NoTag(value) ==
    /\ ~HasTag(value.text)
    /\ \A i \in 1..Len(value.items) :
          ~HasTag(value.items[i].key) /\ NoTag(value.items[i].value)

\* got has every sanitized key of the dict data, at every nesting level
RECURSIVE ContainsKeys(_, _)
ContainsKeys(data, got) ==
    \A i \in 1..Len(data.items) :
        LET key == sanitize_string(data.items[i].key)
            value == data.items[i].value
        IN  /\ got.kind = "map"
            /\ HasKey(got, key)
            /\ value.kind = "map" => ContainsKeys(value, Get(got, key))

\* C17: store_user_profile(id, P) followed by get_user_profile(id) returns a
\* structure that has every sanitized key of P at every nesting level and in
\* which no key and no string value, at any depth inside mappings or
\* sequences, contains a tag-shaped substring; numbers and null come back
\* unchanged.
C17_ProfileRoundTrip ==
    [][\A u \in Users, profile_data \in Profiles :
          store_user_profile(u, profile_data) =>
             /\ ContainsKeys(profile_data, get_user_profile(u)')
             /\ NoTag(get_user_profile(u)')]_vars

\* the keys of the profiles, sanitized
ProfileKeys == {<<"n">>, <<"p">>, <<"t">>, <<"l">>, <<"b">>, <<"g">>, <<"k">>,
                <<"z">>, created_at}

\* the key paths of length one and two
ProfilePaths == {<<k>> : k \in ProfileKeys} \cup (ProfileKeys \X ProfileKeys)

\* value[path[1]][path[2]]..., found only along mappings
RECURSIVE Lookup(_, _)
Lookup(value, path) ==
    IF path = <<>> THEN [found |-> TRUE, value |-> value]
    ELSE IF value.kind = "map" /\ HasKey(value, Head(path))
         THEN Lookup(Get(value, Head(path)), Tail(path))
         ELSE [found |-> FALSE, value |-> Null]

IsMapAt(value, path) == Lookup(value, path).found /\ Lookup(value, path).value.kind = "map"

\* the new data does not mention the path: along it, the data has mappings
\* down to a key that it lacks
Unmentioned(data, path) ==
    \E k \in 1..Len(path) :
        /\ ~Lookup(data, SubSeq(path, 1, k)).found
        /\ \A j \in 1..(k - 1) : IsMapAt(data, SubSeq(path, 1, j))

\* what a deep merge of data into old requires of the result
MergeLaw(old, data, result) ==
    \A path \in ProfilePaths :
        LET o == Lookup(old, path)
            s == Lookup(data, path)
            r == Lookup(result, path)
        IN  /\ (s.found /\ s.value.kind # "map") => (r.found /\ r.value = s.value)
            /\ (s.found /\ s.value.kind = "map" /\ ~IsMapAt(old, path))
                  => (r.found /\ r.value = s.value)
            /\ (s.found /\ s.value.kind = "map" /\ IsMapAt(old, path))
                  => IsMapAt(result, path)
            /\ (o.found /\ Unmentioned(data, path)) => (r.found /\ r.value = o.value)
            /\ r.found => (o.found \/ s.found)

\* C18: store_user_profile deep-merges the new data into the stored profile:
\* where the old and the new value of a key are both mappings they are
\* merged key by key, any other new value overwrites the old one, and every
\* key of the prior profile that the new data does not mention keeps its
\* value at every nesting level; the profile is never replaced wholesale.
C18_ProfileDeepMerge ==
    [][\A u \in Users, profile_data \in Profiles :
          store_user_profile(u, profile_data) =>
             MergeLaw(IF user_exists(u) THEN user_profile[u] ELSE BlankProfile(today),
                      sanitize_dict(profile_data), user_profile'[u])]_vars

\* a profile whose "p" mapping was merged from two calls, next to the
\* created_at of create_user and the "b" of the second call
C18_Witness ==
    \E u \in Users :
        /\ profile_calls = 2
        /\ Lookup(user_profile[u], <<created_at>>).found
        /\ Lookup(user_profile[u], << <<"p">>, <<"t">> >>).value = Str(<<"d", "a", "r", "k">>)
        /\ Lookup(user_profile[u], << <<"p">>, <<"l">> >>).value = Str(<<"e", "n">>)
        /\ Lookup(user_profile[u], << <<"b">> >>).value = Num(1)


(* --------------------- permanent memories: SpecMemories ---------------- *)

\* the values of memory_index: below, inside and past the lists
MemoryIndexes == (-1)..MaxMemories

\* the values of memory_type of the two operations: "<b>trip", "goal"
AddressedTypes == { <<"<", "b", ">", "t", "r", "i", "p">>, <<"g", "o", "a", "l">> }

NextMemories ==
    \/ \E u \in Users : create_user(u)
    \/ \E u \in Users, memory_content \in MemoryContents, memory_type \in MemoryTypes :
          store_permanent_memory(u, memory_content, memory_type)
    \/ \E u \in Users, memory_index \in MemoryIndexes, memory_type \in AddressedTypes,
          updates \in MemoryUpdates :
          update_permanent_memory(u, memory_index, memory_type, updates)
    \/ \E u \in Users, memory_index \in MemoryIndexes, memory_type \in AddressedTypes :
          delete_permanent_memory(u, memory_index, memory_type)

SpecMemories == Init /\ [][NextMemories]_vars

\* (type, index) addresses no entry of the user: the index is negative or
\* not below the length of the type's list, or the type or the user is unknown
NoSuchMemory(u, memory_index, memory_type) ==
    \/ memory_index < 0
    \/ ~user_exists(u)
    \/ memory_index >= Len(get_permanent_memories(u, memory_type))

\* the list new is the list old without its entry at the 0-based index i
RemovedAt(old, new, i) ==
    /\ Len(new) = Len(old) - 1
    /\ \A j \in 1..Len(new) : new[j] = IF j <= i THEN old[j] ELSE old[j + 1]

\* what the two operations return for an address that names no entry
RefusedIsFalse ==
    \A u \in Users, memory_index \in MemoryIndexes, memory_type \in AddressedTypes :
        NoSuchMemory(u, memory_index, memory_type) =>
           /\ ~delete_permanent_memory_result(u, memory_index, memory_type)
           /\ \A updates \in MemoryUpdates :
                 ~update_permanent_memory_result(u, memory_index, memory_type, updates)

\* no step that changes permanent_memories is a call with such an address
RefusedChangesNothing ==
    \/ permanent_memories' = permanent_memories
    \/ \A u \in Users, memory_index \in MemoryIndexes, memory_type \in AddressedTypes :
          NoSuchMemory(u, memory_index, memory_type) =>
             /\ ~delete_permanent_memory(u, memory_index, memory_type)
             /\ \A updates \in MemoryUpdates :
                   ~update_permanent_memory(u, memory_index, memory_type, updates)

\* a delete with a valid address returns true, removes that entry and keeps
\* everything else
DeleteRemovesOne ==
    \A u \in Users, memory_index \in MemoryIndexes, memory_type \in AddressedTypes :
        ( /\ ~NoSuchMemory(u, memory_index, memory_type)
          /\ delete_permanent_memory(u, memory_index, memory_type) ) =>
           /\ delete_permanent_memory_result(u, memory_index, memory_type)
           /\ RemovedAt(get_permanent_memories(u, memory_type),
                        get_permanent_memories(u, memory_type)', memory_index)
           /\ \A v \in Users, k \in MemoryKeys :
                 (v # u \/ k # sanitize_string(memory_type))
                    => permanent_memories'[v][k] = permanent_memories[v][k]

\* C19: update_permanent_memory and delete_permanent_memory address one
\* entry by (type, index): when the index is negative or not below the
\* length of the type's list, or the type or the user is unknown, they
\* return false and leave permanent_memories unchanged; with a valid index
\* delete removes exactly that entry and keeps the other entries of the
\* type, and the lists of the other types and users, as they were.
C19_MemoryAddressing ==
    /\ []RefusedIsFalse
    /\ [][RefusedChangesNothing /\ DeleteRemovesOne]_vars

\* three memories were stored for one user and one of them was deleted from
\* in front of "m1", "m2", which are left in their order
C19_Witness ==
    \E u \in Users :
        /\ memory_calls = 3
        /\ \A v \in Users \ {u} : ~user_exists(v)
        /\ Len(get_permanent_memories(u, <<"g", "o", "a", "l">>)) = 0
        /\ Len(get_permanent_memories(u, <<"t", "r", "i", "p">>)) = 2
        /\ get_permanent_memories(u, <<"t", "r", "i", "p">>)[1].content = <<"m", "1">>
        /\ get_permanent_memories(u, <<"t", "r", "i", "p">>)[2].content = <<"m", "2">>


(* ----------------------- comfort escalation: SpecComfort --------------- *)

\* the emotions recorded in SpecComfort
RecordedEmotions == {"sadness", "fear"}

NextComfort ==
    \/ \E emotion \in RecordedEmotions :
          /\ emotional_history["alice"].persistent_emotions[emotion].count < MaxProcessed
          /\ update_emotional_trend("alice", emotion, 400)
    \/ \E u \in Users, emotion \in Emotions :
          get_comfort_escalation_response(u, emotion)

SpecComfort == Init /\ [][NextComfort]_vars

\* the number of times the emotion has been recorded for the user
Recorded(u, emotion) == emotional_history[u].persistent_emotions[emotion].count

\* the response is that of the emotion's category at the index of the
\* recorded count, clamped to the last level
LevelIsRecordedCount ==
    \A u \in Users, emotion \in ComfortEmotions \cap Emotions :
        comfort_escalation_response(u, emotion) =
            [category |-> comfort_category(emotion),
             level |-> IF Recorded(u, emotion) >= LadderLen THEN LadderLen - 1
                       ELSE Recorded(u, emotion)]

\* the returned level does not decrease
LevelNeverDecreases ==
    \A u \in Users, emotion \in ComfortEmotions \cap Emotions :
        comfort_escalation_response(u, emotion)'.level
            >= comfort_escalation_response(u, emotion).level

\* C20: for a user and an emotion among sadness, anxiety, anger and fear,
\* get_comfort_escalation_response returns the response of the emotion's
\* category ladder at the index equal to the number of times the emotion has
\* been recorded for the user, clamped to the last of the 5 levels, and over
\* any sequence of recordings and lookups the returned level never decreases.
C20_EscalationFollowsCount ==
    /\ []LevelIsRecordedCount
    /\ [][LevelNeverDecreases]_vars


(* ------------- _save_evolution_data step by step: SpecEvoSave ---------- *)

\* _save_evolution_data(user_id, data) is called; target_file is the user's
\* evolution_data.json
SaveBegin(w, d) == WriteBegin(w, d)

\* file_path = self._get_user_data_path(user_id): os.makedirs(base_path)
SaveMakedirs(w) == WriteMakedirs(w)

\* open(file_path, 'w'): creates or truncates evolution_data.json itself
SaveOpen(w) ==
    /\ wpc[w] = "open"
    /\ wpc' = [wpc EXCEPT ![w] = "dump"]
    /\ target_file' = [exists |-> TRUE, text |-> <<>>]
    /\ UNCHANGED <<temp_file, wdata, wold, wpos, wsaw, wresult, rpc, rseen, rresult>>
    /\ wnode' = [wnode EXCEPT ![w] = "target"]
    /\ UNCHANGED <<storeVars, evoVars, procVars, sanVars>>

\* json.dump(data, f, indent=2): the next chunk reaches evolution_data.json
SaveDump(w) == WriteDump(w)

\* the with block closes the file; return True
SaveReturn(w) ==
    /\ wpc[w] = "dump"
    /\ wpos[w] = DocLen
    /\ wpc' = [wpc EXCEPT ![w] = "done"]
    /\ wresult' = [wresult EXCEPT ![w] = "true"]
    /\ UNCHANGED <<target_file, temp_file, wdata, wold, wpos, wsaw, rpc, rseen, rresult>>
    /\ wnode' = [wnode EXCEPT ![w] = "none"]
    /\ UNCHANGED <<storeVars, evoVars, procVars, sanVars>>

\* a step raises: except Exception: return False
SaveFail(w) == WriteFail(w)

\* the process is killed inside _save_evolution_data
SaveKill(w) == WriteKill(w)

NextEvoSave ==
    \/ \E w \in OneWriter, d \in Docs : SaveBegin(w, d)
    \/ \E w \in OneWriter : SaveMakedirs(w)
    \/ \E w \in OneWriter : SaveOpen(w)
    \/ \E w \in OneWriter : SaveDump(w)
    \/ \E w \in OneWriter : SaveReturn(w)
    \/ \E w \in OneWriter : SaveFail(w)
    \/ \E w \in OneWriter : SaveKill(w)
    \/ ReadBegin
    \/ ReadExists
    \/ ReadLoad

SpecEvoSave == Init /\ [][NextEvoSave]_vars

\* C21: evolution_data.json is written by temp-file-then-atomic-replace: if
\* the process is killed while update_evolution_stats saves, the file on disk
\* is absent or holds the complete old or the complete new evolution data,
\* never a truncated document.
C21_EvolutionSaveAtomic ==
    \A w \in OneWriter :
        wpc[w] = "killed" =>
           /\ ~target_file.exists \/ Complete(target_file)
           /\ target_file = wold[w] \/ target_file.text = json_dump(wdata[w])


(* ------------- two writers of one document: SpecRace ------------------- *)

\* the document each of the two processes writes to the same file_path
RaceData == [w \in Writers |-> IF w = "w1" THEN "d1" ELSE "d2"]

\* each process calls _write_json_file(file_path, data) once
RaceBegin(w) == wpc[w] = "idle" /\ WriteBegin(w, RaceData[w])

NextRace ==
    \/ \E w \in Writers : RaceBegin(w)
    \/ \E w \in Writers : WriteMakedirs(w)
    \/ \E w \in Writers : WriteOpen(w)
    \/ \E w \in Writers : WriteDump(w)
    \/ \E w \in Writers : WriteExists(w)
    \/ \E w \in Writers : WriteReplace(w)

SpecRace == Init /\ [][NextRace]_vars

\* C22: when two writers write the same document concurrently, every
\* interleaving of their steps ends with the target holding one of the two
\* complete documents, both writers report success, and at no point does the
\* target hold a mix or a partial document.
C22_RaceLastWriterWins ==
    /\ ~target_file.exists \/ Complete(target_file)
    /\ (\A w \in Writers : wpc[w] = "done") =>
          /\ \A w \in Writers : wresult[w] = "true"
          /\ \E w \in Writers : target_file.text = json_dump(RaceData[w])


(* ------------- store_message with a failed write: SpecUnwritten -------- *)

NextUnwritten ==
    \/ \E u \in Users : create_user(u)
    \/ \E u \in Users, message \in Contents : store_message(u, message, TRUE)
    \/ \E u \in Users, message \in Contents :
          store_message_history_unwritten(u, message, TRUE)

SpecUnwritten == Init /\ [][NextUnwritten]_vars

\* a store_message that returns false leaves the two documents of a user
\* that exists as they were
UnwrittenChangesNothing ==
    \A u \in Users, message \in Contents :
        (user_exists(u) /\ store_message_history_unwritten(u, message, TRUE)) =>
           /\ conversation_history'[u] = conversation_history[u]
           /\ interaction_metrics'[u] = interaction_metrics[u]

\* message_count is the number of store_message calls that returned true
CountIsStored ==
    \A u \in Users :
        user_exists(u) => interaction_metrics[u].message_count = Len(stored[u])

\* C23: if store_message returns false because a storage write failed, the
\* turn is not recorded anywhere: conversation_history.json and
\* interaction_metrics.json are exactly as before the call, so message_count
\* always equals the number of store_message calls that returned true since
\* the user was created.
C23_FailedStoreRecordsNothing ==
    /\ []CountIsStored
    /\ [][UnwrittenChangesNothing]_vars


(* ------------------- reads of unknown ids: SpecReads ------------------- *)

\* the id that is written in SpecReads; the other ids are only read
WrittenUsers == {"alice"}

NextReads ==
    \/ \E u \in WrittenUsers : create_user(u)
    \/ \E u \in WrittenUsers, message \in Contents : store_message(u, message, TRUE)
    \/ \E u \in Users : check_user_exists(u)
    \/ \E u \in Users : update_streak(u)
    \/ \E u \in Users : load_relationship_data(u)

SpecReads == Init /\ [][NextReads]_vars

\* C24: read operations on an id that was never written (get_recent_messages,
\* get_user_profile, get_user_facts, get_permanent_memories, update_streak,
\* get_relationship_data, user_exists) return their empty default and leave
\* the store without any directory or index entry for the id.
C24_ReadsCreateNothing ==
    \A u \in Users \ WrittenUsers :
        /\ get_recent_messages(u, 0) = <<>>
        /\ get_user_profile(u) = Dict(<<>>)
        /\ \A memory_type \in MemoryTypes : get_permanent_memories(u, memory_type) = <<>>
        /\ get_relationship_data(u).stage = "new"
        /\ get_relationship_data(u).interaction_count = 0
        /\ ~user_exists(u)
        /\ ~InIndex(u)
        /\ u \notin user_dirs
        /\ files[u] = {}
        /\ u \notin evo_dirs


(* ------------------------ global context: SpecGlobal ------------------- *)

NextGlobal ==
    \/ \E key \in ContextKeyTexts, value \in ContextValues :
          set_global_context(key, value)
    \/ \E key \in ContextKeyTexts : delete_global_context(key)
    \/ \E u \in Users : create_user(u)
    \/ \E u \in Users : clear_user_data(u)

SpecGlobal == Init /\ [][NextGlobal]_vars

\* the value get returns after a set of v: v without tags in its text when
\* it is a string, the sanitized mapping when it is a mapping, else v
StoredValue(v, got) ==
    /\ v.kind = "str" => (got.kind = "str" /\ got.text = sanitize_string(v.text)
                            /\ ~HasTag(got.text))
    /\ v.kind = "map" => (got = sanitize_dict(v) /\ NoTag(got))
    /\ v.kind \notin {"str", "map"} => got = v

\* the entries of the keys other than key are as they were
OtherKeysKept(key) ==
    \A k \in ContextKeys \ {sanitize_string(key)} : global_context'[k] = global_context[k]

\* C25: global context is a store-wide key/value map: get_global_context(k)
\* after set_global_context(k, v) returns v (sanitized when v is a mapping or
\* a string), a later set of the key overwrites, get after
\* delete_global_context(k) returns None, deleting an absent key returns
\* true and changes nothing, and no user operation, clear_user_data
\* included, changes any entry.
C25_GlobalContextMap ==
    [][/\ \A key \in ContextKeyTexts, value \in ContextValues :
             set_global_context(key, value) =>
                StoredValue(value, get_global_context(key)') /\ OtherKeysKept(key)
       /\ \A key \in ContextKeyTexts :
             /\ delete_global_context_result(key)
             /\ delete_global_context(key) =>
                   /\ get_global_context(key)' = Null
                   /\ OtherKeysKept(key)
                   /\ ~global_context[sanitize_string(key)].present
                         => global_context' = global_context
       /\ (\E u \in Users : create_user(u) \/ clear_user_data(u))
          => global_context' = global_context]_vars

\* "k" was set to a mapping, which comes back sanitized, "j" is not set, and
\* a user has been created
C25_Witness ==
    /\ get_global_context(<<"k">>) =
          Dict(<< [key |-> <<"c">>, value |-> Str(<<"x">>)] >>)
    /\ get_global_context(<<"j">>) = Null
    /\ \E u \in Users : user_exists(u)


(* -------------------- emotional trend: SpecTrend ----------------------- *)

\* the emotions and the user of SpecTrend
TrendEmotions == {"sadness", "joy"}

TrendUser == "alice"

\* the number of update_emotional_trend calls made for the user
TrendCalls(u) ==
    LET RECURSIVE Sum(_)
        Sum(S) == IF S = {} THEN 0
                  ELSE LET x == CHOOSE y \in S : TRUE
                       IN  emotional_history[u].persistent_emotions[x].count + Sum(S \ {x})
    IN  Sum(Emotions)

NextTrend ==
    \/ \E emotion \in TrendEmotions :
          /\ TrendCalls(TrendUser) < MaxTrendCalls
          /\ update_emotional_trend(TrendUser, emotion, 400)

SpecTrend == Init /\ [][NextTrend]_vars

\* recent_emotions holds min(n, 10) samples after n calls
RecentHoldsLastTen ==
    \A u \in Users :
        Len(emotional_history[u].recent_emotions) =
            IF TrendCalls(u) < 10 THEN TrendCalls(u) ELSE 10

\* a call appends its sample, evicts the oldest sample when there were ten,
\* and adds one to the count of its emotion and to no other count
TrendStep ==
    \A emotion \in TrendEmotions :
        update_emotional_trend(TrendUser, emotion, 400) =>
           LET old == emotional_history[TrendUser]
               new == emotional_history'[TrendUser]
               sample == [emotion |-> emotion, intensity |-> 400, timestamp |-> today]
           IN  /\ new.recent_emotions =
                     IF Len(old.recent_emotions) < 10
                     THEN Append(old.recent_emotions, sample)
                     ELSE Append(Tail(old.recent_emotions), sample)
               /\ \A e \in Emotions :
                     new.persistent_emotions[e].count =
                         old.persistent_emotions[e].count + (IF e = emotion THEN 1 ELSE 0)

\* C26: after n update_emotional_trend calls for a user, recent_emotions
\* holds the last min(n, 10) recorded samples in call order, the oldest
\* evicted first, and for every emotion e persistent_emotions[e].count is the
\* number of calls made with e, so the counts sum to n.
C26_TrendHistory ==
    /\ []RecentHoldsLastTen
    /\ [][TrendStep]_vars

\* eleven calls: the first sample, of sadness, was evicted, the ten samples
\* of joy after it are left
C26_Witness ==
    /\ emotional_history[TrendUser].persistent_emotions["sadness"].count = 1
    /\ emotional_history[TrendUser].persistent_emotions["joy"].count = 10
    /\ Len(emotional_history[TrendUser].recent_emotions) = 10
    /\ \A i \in 1..10 : emotional_history[TrendUser].recent_emotions[i].emotion = "joy"


(* --------------- evolution counters over days: SpecEvoDays ------------- *)

NextEvoDays ==
    \/ \E u \in EvoUsers, interaction_data \in EvoInputs :
          /\ get_relationship_data(u).interaction_count < MaxStatCalls
          /\ update_evolution_stats(u, interaction_data)
    \/ Tick

SpecEvoDays == Init /\ [][NextEvoDays]_vars

\* the depth score of the call is strictly above 0.5: depth_level when
\* given, else 0.7 times emotion_intensity, else 0 (values in thousandths)
DeepCall(interaction_data) ==
    \/ interaction_data.kind = "depth_level" /\ interaction_data.value > 500
    \/ interaction_data.kind = "emotion_intensity" /\ 7 * interaction_data.value > 5000

\* the per-day aggregates of a counter summed over all dates
DailyTotal(data, meaningful_only) ==
    LET RECURSIVE Sum(_)
        Sum(S) == IF S = {} THEN 0
                  ELSE LET d == CHOOSE y \in S : TRUE
                       IN  (IF meaningful_only
                            THEN data.evolution_stats[d].meaningful_interactions
                            ELSE data.evolution_stats[d].interaction_count) + Sum(S \ {d})
    IN  Sum(Days)

\* the cumulative counters are ordered and are the sums of the daily ones
CountersAgree ==
    \A u \in EvoUsers :
        LET data == get_relationship_data(u)
        IN  /\ data.meaningful_interactions <= data.interaction_count
            /\ DailyTotal(data, FALSE) = data.interaction_count
            /\ DailyTotal(data, TRUE) = data.meaningful_interactions

\* a call adds one to interaction_count, and one to meaningful_interactions
\* exactly when its depth score is above 0.5
CountersStep ==
    \A u \in EvoUsers, interaction_data \in EvoInputs :
        update_evolution_stats(u, interaction_data) =>
           /\ get_relationship_data(u)'.interaction_count =
                 get_relationship_data(u).interaction_count + 1
           /\ get_relationship_data(u)'.meaningful_interactions =
                 get_relationship_data(u).meaningful_interactions
                    + (IF DeepCall(interaction_data) THEN 1 ELSE 0)

\* C27: every update_evolution_stats call increases interaction_count by 1
\* and meaningful_interactions by 1 exactly when the depth score is strictly
\* greater than 0.5; meaningful_interactions <= interaction_count always, and
\* the per-day aggregates of the two counters summed over all dates equal the
\* cumulative counters.
C27_EvolutionCounters ==
    /\ []CountersAgree
    /\ [][CountersStep]_vars

\* three calls on two days, two of them meaningful
C27_Witness ==
    \E u \in EvoUsers :
        LET data == get_relationship_data(u)
        IN  /\ data.interaction_count = 3
            /\ data.meaningful_interactions = 2
            /\ data.evolution_stats[1].interaction_count = 1
            /\ data.evolution_stats[1].meaningful_interactions = 1
            /\ data.evolution_stats[3].interaction_count = 2
            /\ data.evolution_stats[3].meaningful_interactions = 1


(* ------------------ what create_user reports: SpecCreate --------------- *)

\* C28: create_user returns true only if all five initial documents and the
\* updated users index were written; if a write fails it returns false and
\* the user is not reported as created.
C28_CreateReportsWrites ==
    [][\A u \in Users :
          (create_user(u) \/ create_user_index_unwritten(u)) =>
             (create_user_result(u) => (files'[u] = DocNames /\ InIndex(u)'))]_vars


(* ---------------------- user isolation: SpecIsolation ------------------ *)

\* the memory type and the update of the operations of SpecIsolation
IsolationType == <<"g", "o", "a", "l">>
IsolationUpdate == Dict(<< Entry(<<"n">>, Num(1)) >>)

\* a store operation invoked for the sanitized user id u
StoreOperation(u) ==
    \/ store_message(u, <<"h", "i">>, TRUE)
    \/ store_user_profile(u, ProfileTheme)
    \/ store_user_fact(u, <<"p", "e", "t">>, <<"g", "o">>)
    \/ store_permanent_memory(u, <<"m", "1">>, IsolationType)
    \/ update_permanent_memory(u, 0, IsolationType, IsolationUpdate)
    \/ delete_permanent_memory(u, 0, IsolationType)
    \/ update_streak(u)
    \/ clear_user_data(u)

NextIsolation ==
    \/ \E u \in Users : create_user(u)
    \/ \E u \in Users :
          OpsDone < MaxOps /\ store_message(u, <<"h", "i">>, TRUE)
    \/ \E u \in Users :
          OpsDone < MaxOps /\ store_user_profile(u, ProfileTheme)
    \/ \E u \in Users :
          OpsDone < MaxOps /\ store_user_fact(u, <<"p", "e", "t">>, <<"g", "o">>)
    \/ \E u \in Users :
          OpsDone < MaxOps /\ store_permanent_memory(u, <<"m", "1">>, IsolationType)
    \/ \E u \in Users : update_permanent_memory(u, 0, IsolationType, IsolationUpdate)
    \/ \E u \in Users : delete_permanent_memory(u, 0, IsolationType)
    \/ \E u \in Users : update_streak(u)
    \/ \E u \in Users : clear_user_data(u)

SpecIsolation == Init /\ [][NextIsolation]_vars

\* what the store holds of user v: the documents, the directory and the
\* index entry
Holdings(v) == <<Documents(v), v \in user_dirs, InIndex(v)>>

\* C29: every store operation invoked for one sanitized user id leaves all
\* documents of every other user, and the other users' index entries,
\* unchanged.
C29_UserIsolation ==
    [][\A u \in Users :
          (\E v \in Users \ {u} : Holdings(v)' # Holdings(v)) => ~StoreOperation(u)]_vars

\* bob has a message, a fact and a memory and is in the index after alice,
\* who was written to, has been cleared
C29_Witness ==
    /\ users_index = <<"bob">>
    /\ files["alice"] = {}
    /\ stored["alice"] # <<>>
    /\ conversation_history["bob"] # <<>>
    /\ permanent_memories["bob"][IsolationType] # <<>>
    /\ files["bob"] = DocNames


(* ----------------------- the sanitizers: SpecSanitize ------------------ *)

\* the characters of the strings given: tag brackets, a letter, a blank
TextChars == {"<", ">", "a", " "}

\* the strings of at most MaxTextLen of them
Texts == UNION {[1..n -> TextChars] : n \in 0..MaxTextLen}

InitSanitize ==
    /\ InitStore /\ InitWrite /\ InitEvo /\ InitProc
    /\ san_kind \in {"text", "id"}
    /\ san_given \in Texts
    /\ san_text = san_given
    /\ san_calls = 0

NextSanitize ==
    \/ san_calls < MaxSanitizeCalls /\ sanitize_string_call
    \/ san_calls < MaxSanitizeCalls /\ sanitize_user_id_call

SpecSanitize == InitSanitize /\ [][NextSanitize]_vars

\* a sanitized text has no substring of the shape "<" ... ">"
SanitizedHasNoTag == (san_kind = "text" /\ san_calls >= 1) => ~HasTag(san_text)

\* a sanitizer applied to its own result returns it as it is
SecondPassKeeps == (san_calls >= 1 /\ san_calls' = san_calls + 1) => san_text' = san_text

\* C30: the sanitizers are idempotent and complete in one pass:
\* sanitize_text(s) has no substring of the shape "<" ... ">" and
\* sanitize_text(sanitize_text(s)) = sanitize_text(s); for every id that
\* sanitizes to a non-empty result sanitize_id(sanitize_id(x)) = sanitize_id(x).
C30_SanitizersIdempotent ==
    /\ []SanitizedHasNoTag
    /\ [][SecondPassKeeps]_vars

\* "<<>>" went through _sanitize_string twice and is ">"
C30_Witness ==
    /\ san_calls = 2
    /\ san_kind = "text"
    /\ san_given = <<"<", "<", ">", ">">>
    /\ san_text = <<">">>

====
